---- MODULE Spec2Model ----
(***************************************************************************)
(* A model of the Blocks language: the indentation parser (parser.ts), the *)
(* scope chain, expression evaluator, statement executor and frame driver  *)
(* (interpreter.ts) and the Run/Stop wiring of the Project component.      *)
(*                                                                         *)
(* Text is modelled as a sequence of tokens: a word, a numeral, one        *)
(* punctuation character, or one blank " ". A line record is               *)
(* [value |-> text, indent |-> n]. Variable names and expression texts are *)
(* texts too, as in the source, where both are strings.                    *)
(***************************************************************************)
EXTENDS Integers, Sequences, FiniteSets, TLC

VARIABLES
    code,        \* Project: the editor's program, a sequence of line records
    ctxs,        \* every runtime context constructed by runCode so far
    contextRef,  \* Project: contextRef.current, an index into ctxs, 0 = null
    errors,      \* Project: the errors state, the diagnostics of this run
    drawn,       \* Project: the drawingCommands state handed to CanvasView
    canvasSize,  \* Project: the canvasSize state
    rafNow,      \* animation-frame callbacks of the frame being delivered
    rafNext,     \* callbacks requested for the next frame
    log,         \* ghost: what the last handler did, in order
    stopped,     \* ghost: Stop was pressed and Run has not been since
    budget,      \* environment: how often Run may still be pressed
    arg,         \* input of the pure-function specifications
    res          \* their result

vars == <<code, ctxs, contextRef, errors, drawn, canvasSize, rafNow, rafNext,
          log, stopped, budget, arg, res>>

\* the color stack keeps at most this many entries
MaxColors == 5

\* Run presses of one behaviour
MaxRuns == 2

\* scopes of one scope arena setVar is applied to
MaxScopes == 3

\* records of one sequence parse is applied to
MaxRecords == 3

\* statements after the declarations of one script
MaxStatements == 2

\* diagnostics on display beyond which no further frame is delivered
MaxErrors == 3

\* passes of one while loop the model follows before it reports a hang
MaxWhilePasses == 4

\* color and popColor calls of one script of the color stack
MaxColorCalls == 6

\* physical lines of one input lex is applied to
MaxLines == 3

\* key events delivered in one behaviour
MaxKeyEvents == 2

\* the keys of the keyboard
Keys == {"a", "b"}

\* scopes of the chain a list of nodes is executed in
MaxDepth == 2

(***************************************************************************)
(* Dynamically typed values. k is compared first, so two values of         *)
(* different kinds are unequal without their payloads being compared.      *)
(***************************************************************************)
Undefined == [k |-> "undefined", v |-> 0]
NaN == [k |-> "nan", v |-> 0]
Num(n) == [k |-> "num", v |-> n]
Bool(b) == [k |-> "bool", v |-> IF b THEN 1 ELSE 0]
List(s) == [k |-> "list", v |-> s]
Str(s) == [k |-> "str", v |-> s]
\* a string or an object the model does not look into
Opaque == [k |-> "opaque", v |-> 0]
\* a property inherited from Object.prototype
Native == [k |-> "native", v |-> 0]

\* a faulty test that takes undefined for true
TruthyLoose(val) ==
    CASE val.k = "num" -> val.v # 0
      [] val.k = "bool" -> val.v = 1
      [] val.k = "nan" -> FALSE
      [] OTHER -> TRUE

Truthy(val) ==
    CASE val.k = "num" -> val.v # 0
      [] val.k = "bool" -> val.v = 1
      [] val.k = "undefined" -> FALSE
      [] val.k = "nan" -> FALSE
      [] OTHER -> TRUE

(***************************************************************************)
(* Text helpers: String.prototype.trim, split(','), filter(Boolean).       *)
(***************************************************************************)
Punct == {"(", ")", ",", ":", "=", "+", "-", "*", "<", ">", "[", "]", "!",
          "&&", "||", "#"}

NumeralValue ==
    ("0" :> 0) @@ ("1" :> 1) @@ ("2" :> 2) @@ ("3" :> 3) @@ ("4" :> 4) @@
    ("5" :> 5) @@ ("30" :> 30) @@ ("255" :> 255) @@ ("300" :> 300) @@
    ("500" :> 500)

IsNumeral(t) == t \in DOMAIN NumeralValue

\* the string literals of the programs, quotes included, and what they denote
StringValue == ("\"a\"" :> "a") @@ ("\"b\"" :> "b")

IsStringLiteral(t) == t \in DOMAIN StringValue

\* /^[A-Za-z_][A-Za-z0-9_]*$/ on one token
IsWord(t) ==
    t # "" /\ t # " " /\ t \notin Punct /\ ~IsNumeral(t) /\ ~IsStringLiteral(t)

\* the token at p, "" past the end
Tok(s, p) == IF p >= 1 /\ p <= Len(s) THEN s[p] ELSE ""

\* the first position >= p that holds no blank (\s*)
SkipSpaces(s, p) ==
    IF \E q \in p..Len(s) : s[q] # " "
    THEN CHOOSE q \in p..Len(s) : s[q] # " " /\ \A r \in p..(q - 1) : s[r] = " "
    ELSE Len(s) + 1

Trim(s) ==
    IF \A i \in 1..Len(s) : s[i] = " " THEN <<>>
    ELSE LET a == SkipSpaces(s, 1)
             b == CHOOSE q \in 1..Len(s) :
                      s[q] # " " /\ \A r \in (q + 1)..Len(s) : s[r] = " "
         IN SubSeq(s, a, b)

RECURSIVE Split(_, _)
Split(s, sep) ==
    IF \E i \in 1..Len(s) : s[i] = sep
    THEN LET i == CHOOSE j \in 1..Len(s) :
                      s[j] = sep /\ \A r \in 1..(j - 1) : s[r] # sep
         IN <<SubSeq(s, 1, i - 1)>> \o Split(SubSeq(s, i + 1, Len(s)), sep)
    ELSE <<s>>

TrimAll(ss) == [i \in 1..Len(ss) |-> Trim(ss[i])]

NonEmpty(x) == x # <<>>

\* s.split(',').map(a => a.trim()).filter(Boolean)
SplitArgs(s) == SelectSeq(TrimAll(Split(s, ",")), NonEmpty)

\* the last position of token t in s at or after p, 0 when there is none
LastIndexOf(s, t, p) ==
    IF \E i \in p..Len(s) : s[i] = t
    THEN CHOOSE i \in p..Len(s) : s[i] = t /\ \A r \in (i + 1)..Len(s) : s[r] # t
    ELSE 0

HasToken(s, t) == \E i \in 1..Len(s) : s[i] = t

HasPair(s, t, u) == \E i \in 1..(Len(s) - 1) : s[i] = t /\ s[i + 1] = u

(***************************************************************************)
(* parser.ts, lex(): the input is the sequence of physical lines that      *)
(* input.split('\n') yields, each a text with its leading blanks.          *)
(***************************************************************************)
isBlankOrComment(line) == Trim(line) = <<>> \/ Tok(Trim(line), 1) = "#"

\* a faulty test that drops a blank or comment line wherever it stands
SkipsAnywhere(line, bracketDepth) == isBlankOrComment(line)

\* if (isBlankOrComment(line)) { if (bracketDepth === 0) continue; }
Skips(line, bracketDepth) == isBlankOrComment(line) /\ bracketDepth = 0

\* line.match(/^(\s+)/): the length of the leading blanks
LeadingSpaces(line) == SkipSpaces(line, 1) - 1

\* a faulty count that sees the opening brackets only
BracketOpens(trimmed) ==
    Cardinality({c \in DOMAIN trimmed : trimmed[c] = "["})

\* localBracketChange: the '[' minus the ']' of the line
BracketChange(trimmed) ==
    Cardinality({c \in DOMAIN trimmed : trimmed[c] = "["})
        - Cardinality({c \in DOMAIN trimmed : trimmed[c] = "]"})

\* the state of lex: tokens, buffer, bracketDepth, currentIndent
LexStart ==
    [tokens |-> <<>>, buffer |-> <<>>, bracketDepth |-> 0, currentIndent |-> 0]

flushBuffer(st) ==
    [tokens |-> IF Trim(st.buffer) # <<>>
                THEN Append(st.tokens, [value |-> Trim(st.buffer),
                                        indent |-> st.currentIndent])
                ELSE st.tokens,
     buffer |-> <<>>, bracketDepth |-> 0, currentIndent |-> 0]

\* one pass of the for loop over rawLines
LexLine(st, line) ==
    LET Flush(st1) == IF st1.bracketDepth <= 0 THEN flushBuffer(st1) ELSE st1
    IN IF Skips(line, st.bracketDepth) THEN st
       ELSE IF st.bracketDepth = 0
       THEN Flush([st EXCEPT !.buffer = Trim(line),
                             !.currentIndent = LeadingSpaces(line),
                             !.bracketDepth = BracketChange(Trim(line))])
       ELSE Flush([st EXCEPT !.buffer = @ \o <<" ">> \o Trim(line),
                             !.bracketDepth = @ + BracketChange(Trim(line))])

RECURSIVE LexFrom(_, _, _)
LexFrom(rawLines, i, st) ==
    IF i > Len(rawLines) THEN st
    ELSE LexFrom(rawLines, i + 1, LexLine(st, rawLines[i]))

lex(rawLines) ==
    LET Rest(st) == IF st.bracketDepth # 0 THEN flushBuffer(st).tokens
                    ELSE st.tokens
    IN Rest(LexFrom(rawLines, 1, LexStart))

(***************************************************************************)
(* parser.ts, parse(): the regular expressions of parseStatement, each on  *)
(* the tokens of one trimmed line. A match is [ok |-> BOOLEAN, ...groups]. *)
(***************************************************************************)
\* /^CanvasSize\s*=\s*\((\d+)\s*,\s*(\d+)\)/
MatchCanvasSize(line) ==
    LET p1 == SkipSpaces(line, 2)
        p2 == SkipSpaces(line, p1 + 1)
        p3 == SkipSpaces(line, p2 + 2)
        p4 == SkipSpaces(line, p3 + 1)
        ok == /\ Tok(line, 1) = "CanvasSize"
              /\ Tok(line, p1) = "="
              /\ Tok(line, p2) = "("
              /\ IsNumeral(Tok(line, p2 + 1))
              /\ Tok(line, p3) = ","
              /\ IsNumeral(Tok(line, p4))
              /\ Tok(line, p4 + 1) = ")"
    IN IF ok THEN [ok |-> TRUE, width |-> NumeralValue[line[p2 + 1]],
                   height |-> NumeralValue[line[p4]]]
       ELSE [ok |-> FALSE, width |-> 0, height |-> 0]

\* /^function\s+([A-Za-z_][A-Za-z0-9_]*)\((.*?)\)\s*:/
MatchFunction(line) ==
    LET p1 == SkipSpaces(line, 2)
        Closes(q) == line[q] = ")" /\ Tok(line, SkipSpaces(line, q + 1)) = ":"
        ok == /\ Tok(line, 1) = "function"
              /\ p1 > 2
              /\ IsWord(Tok(line, p1))
              /\ Tok(line, p1 + 1) = "("
              /\ \E q \in (p1 + 2)..Len(line) : Closes(q)
        q1 == CHOOSE q \in (p1 + 2)..Len(line) :
                  Closes(q) /\ \A r \in (p1 + 2)..(q - 1) : ~Closes(r)
    IN IF ok THEN [ok |-> TRUE, name |-> line[p1],
                   args |-> SplitArgs(SubSeq(line, p1 + 2, q1 - 1))]
       ELSE [ok |-> FALSE, name |-> "", args |-> <<>>]

\* /^loop\s+([A-Za-z_][A-Za-z0-9_]*)=(.+)\s+times:$/
MatchLoopFor(line) ==
    LET n == Len(line)
        p1 == SkipSpaces(line, 2)
        ok == /\ Tok(line, 1) = "loop"
              /\ p1 > 2
              /\ IsWord(Tok(line, p1))
              /\ Tok(line, p1 + 1) = "="
              /\ p1 + 2 <= n - 3
              /\ Tok(line, n - 2) = " "
              /\ Tok(line, n - 1) = "times"
              /\ Tok(line, n) = ":"
    IN IF ok THEN [ok |-> TRUE, varName |-> <<line[p1]>>,
                   countExpr |-> Trim(SubSeq(line, p1 + 2, n - 3))]
       ELSE [ok |-> FALSE, varName |-> <<>>, countExpr |-> <<>>]

\* /^loop\s+while\s+(.*):/
MatchLoopWhile(line) ==
    LET p1 == SkipSpaces(line, 2)
        p2 == SkipSpaces(line, p1 + 1)
        \* \s+ may give blanks back to (.*), never the colon
        q == LastIndexOf(line, ":", p1 + 2)
        ok == /\ Tok(line, 1) = "loop"
              /\ p1 > 2
              /\ Tok(line, p1) = "while"
              /\ p2 > p1 + 1
              /\ q # 0
    IN IF ok THEN [ok |-> TRUE, condition |-> Trim(SubSeq(line, p1 + 2, q - 1))]
       ELSE [ok |-> FALSE, condition |-> <<>>]

\* /^if\s+(.*):$/
MatchIf(line) ==
    LET n == Len(line)
        ok == Tok(line, 1) = "if" /\ Tok(line, 2) = " " /\ n >= 3
              /\ Tok(line, n) = ":"
    IN IF ok THEN [ok |-> TRUE, condition |-> Trim(SubSeq(line, 3, n - 1))]
       ELSE [ok |-> FALSE, condition |-> <<>>]

\* /^(.+)\s*=\s*(.*)$/ : the greedy (.+) takes all up to the last "="
MatchAssignment(line) ==
    LET q == LastIndexOf(line, "=", 2)
    IN IF q # 0
       THEN [ok |-> TRUE, varName |-> Trim(SubSeq(line, 1, q - 1)),
             value |-> Trim(SubSeq(line, q + 1, Len(line)))]
       ELSE [ok |-> FALSE, varName |-> <<>>, value |-> <<>>]

\* a faulty pattern of a call that matches no line
MatchCallNever(line) == [ok |-> FALSE, callee |-> "", args |-> <<>>]

\* /^([A-Za-z_][A-Za-z0-9_]*)\((.*)\)$/
MatchCall(line) ==
    LET n == Len(line)
        ok == IsWord(Tok(line, 1)) /\ Tok(line, 2) = "(" /\ n >= 3
              /\ Tok(line, n) = ")"
    IN IF ok THEN [ok |-> TRUE, callee |-> line[1],
                   args |-> SplitArgs(SubSeq(line, 3, n - 1))]
       ELSE [ok |-> FALSE, callee |-> "", args |-> <<>>]

\* tokens[position].value.startsWith('else:')
IsElseMarker(line) == Tok(line, 1) = "else" /\ Tok(line, 2) = ":"

\* a faulty check that takes an else: marker of any indent
HasElseAnywhere(tokens, position, indent) ==
    /\ position <= Len(tokens)
    /\ IsElseMarker(tokens[position].value)

\* immediate 'else:' at same indent?
HasElse(tokens, position, indent) ==
    /\ position <= Len(tokens)
    /\ IsElseMarker(tokens[position].value)
    /\ tokens[position].indent = indent

(***************************************************************************)
(* parseBlock and parseStatement. position is 1-based; both return the     *)
(* position they leave behind. Every node carries the ghost field at, the  *)
(* index of the record it was built from; nothing executes it.             *)
(***************************************************************************)
RECURSIVE parseBlock(_, _, _), parseStatement(_, _)

\* a faulty parseBlock that breaks on a smaller indent only
parseBlockLax(tokens, position, parentIndent) ==
    IF position > Len(tokens) \/ tokens[position].indent < parentIndent
    THEN [block |-> <<>>, position |-> position]
    ELSE LET st == parseStatement(tokens, position)
             rest == parseBlock(tokens, st.position, parentIndent)
         IN [block |-> <<st.node>> \o rest.block, position |-> rest.position]

parseBlock(tokens, position, parentIndent) ==
    IF position > Len(tokens) \/ tokens[position].indent <= parentIndent
    THEN [block |-> <<>>, position |-> position]
    ELSE LET st == parseStatement(tokens, position)
             rest == parseBlock(tokens, st.position, parentIndent)
         IN [block |-> <<st.node>> \o rest.block, position |-> rest.position]

parseStatement(tokens, position) ==
    LET token == tokens[position]
        line == token.value
        next == position + 1
        mCanvas == MatchCanvasSize(line)
        mFunc == MatchFunction(line)
        mFor == MatchLoopFor(line)
        mWhile == MatchLoopWhile(line)
        mIf == MatchIf(line)
        mAssign == MatchAssignment(line)
        mCall == MatchCall(line)
        body == parseBlock(tokens, next, token.indent)
        hasElse == HasElse(tokens, body.position, token.indent)
        alt == parseBlock(tokens, body.position + 1, token.indent)
    IN IF mCanvas.ok THEN
           [node |-> [type |-> "CanvasSize", width |-> mCanvas.width,
                      height |-> mCanvas.height, at |-> position],
            position |-> next]
       ELSE IF mFunc.ok THEN
           [node |-> [type |-> "FunctionDeclaration", name |-> mFunc.name,
                      args |-> mFunc.args, body |-> body.block,
                      at |-> position],
            position |-> body.position]
       ELSE IF Tok(line, 1) = "loop" /\ HasPair(line, "times", ":")
               /\ mFor.ok THEN
           [node |-> [type |-> "LoopFor", varName |-> mFor.varName,
                      countExpr |-> mFor.countExpr, body |-> body.block,
                      at |-> position],
            position |-> body.position]
       ELSE IF Tok(line, 1) = "loop" /\ ~HasPair(line, "times", ":")
               /\ HasToken(line, "while") /\ mWhile.ok THEN
           [node |-> [type |-> "LoopWhile", condition |-> mWhile.condition,
                      body |-> body.block, at |-> position],
            position |-> body.position]
       ELSE IF mIf.ok THEN
           [node |-> [type |-> "IfStatement", condition |-> mIf.condition,
                      consequent |-> body.block,
                      alternate |-> IF hasElse THEN alt.block ELSE <<>>,
                      at |-> position],
            position |-> IF hasElse THEN alt.position ELSE body.position]
       ELSE IF IsElseMarker(line) THEN
           [node |-> [type |-> "Noop", at |-> position], position |-> next]
       ELSE IF Tok(line, 1) = "return" /\ Tok(line, 2) = " " THEN
           [node |-> [type |-> "ReturnStatement",
                      expression |-> Trim(SubSeq(line, 3, Len(line))),
                      at |-> position],
            position |-> next]
       ELSE IF mAssign.ok THEN
           [node |-> [type |-> "Assignment", varName |-> mAssign.varName,
                      value |-> mAssign.value, at |-> position],
            position |-> next]
       ELSE IF mCall.ok THEN
           [node |-> [type |-> "Call", callee |-> mCall.callee,
                      args |-> mCall.args, at |-> position],
            position |-> next]
       ELSE
           [node |-> [type |-> "Unknown", line |-> line, at |-> position],
            position |-> next]

\* parse(tokens): the top-level block, every record of indent > -1
parse(tokens) == parseBlock(tokens, 1, -1).block

(***************************************************************************)
(* Ghost log events [e, c, d] of context c: "stmt" (d = the record the     *)
(* statement came from), "error" and "halt" (the error sink appended d /   *)
(* cleared c's running flag), "tick" (the frame loop read running = d),    *)
(* "clear", "enter" (function d entered), "draw", "print", "poll",         *)
(* "publish", "hang", "stack" (the color stack was replaced), "loop" (the  *)
(* loop node of record d.at, executed in scope d.parent, got the child     *)
(* scope d.scope), "cond" (the condition of the if or while node of record *)
(* d.at was evaluated in scope d.scope to d.v), "bound" (the parameters of *)
(* a call were bound: d.before and d.after are the scopes when the call    *)
(* began and when its body begins), "write" (setVar was called for name    *)
(* d.name from scope d.scope and left the scopes d.scopes), "return" (the  *)
(* invocation of scope d.scope returned d.v, the scopes being d.scopes),   *)
(* "keydown" and "keyup" (the browser delivered a key event for key d),    *)
(* and the handler's own name as the first event.                          *)
(*                                                                         *)
(* The world one handler runs in: w.ctxs[c] is a runtime Context, w.ref is *)
(* contextRef.current, w.raf the callbacks requested so far for the next   *)
(* frame. A context's scopes are an arena of [parent, vars]: scopes[1] is  *)
(* context.globals (parent 0 stands for Object.prototype), the others are  *)
(* the child scopes Object.create made during the handler.                 *)
(***************************************************************************)
EmptyVars == [n \in {} |-> Undefined]

DefaultColor == [fmt |-> "rgb(0,0,0)", rgb |-> <<>>]

\* Project.runCode: the literal newContext
NewContext ==
    [scopes |-> <<[parent |-> 0, vars |-> EmptyVars]>>,
     functions |-> [n \in {} |-> 0],
     drawingCommands |-> <<>>,
     running |-> FALSE,
     keysDown |-> {},
     colorStack |-> <<>>]

\* the element of a one-element set. In Only({F(x) : x \in {e}}) the value of
\* e is computed before F is entered, as a statement's effect is complete
\* before the next statement begins.
Only(S) == CHOOSE x \in S : TRUE

Emit(w, e, c, d) == [w EXCEPT !.log = Append(@, [e |-> e, c |-> c, d |-> d])]

\* Project.handleError, the error sink of every context
handleError(w, c, msg) ==
    LET w1 == Emit([w EXCEPT !.errors = Append(@, msg)], "error", c, msg)
    IN IF w1.ref # 0
       THEN Emit([w1 EXCEPT !.ctxs[w1.ref].running = FALSE], "halt", w1.ref, 0)
       ELSE w1

Message(kind, what) == [msg |-> kind, what |-> what]

(***************************************************************************)
(* interpreter.ts: createChildScope, getVar, setVar.                       *)
(***************************************************************************)
\* the names every object inherits from Object.prototype (those modelled)
ObjectPrototypeNames ==
    {<<"toString">>, <<"constructor">>, <<"valueOf">>, <<"hasOwnProperty">>}

\* a faulty createChildScope that derives every scope from context.globals
createChildScopeOfGlobals(scopes, parentScope) ==
    Append(scopes, [parent |-> 1, vars |-> EmptyVars])

createChildScope(scopes, parentScope) ==
    Append(scopes, [parent |-> parentScope, vars |-> EmptyVars])

\* the nearest scope from s to the root that owns name, 0 when none does
RECURSIVE Owner(_, _, _)
Owner(scopes, s, name) ==
    IF s = 0 THEN 0
    ELSE IF name \in DOMAIN scopes[s].vars THEN s
    ELSE Owner(scopes, scopes[s].parent, name)

\* name in scope
InScope(scopes, s, name) ==
    Owner(scopes, s, name) # 0 \/ name \in ObjectPrototypeNames

getVar(name, scope, w, c) ==
    LET scopes == w.ctxs[c].scopes
        o == Owner(scopes, scope, name)
    IN IF InScope(scopes, scope, name)
       THEN [w |-> w, v |-> IF o # 0 THEN scopes[o].vars[name] ELSE Native]
       ELSE [w |-> handleError(w, c, Message("Variable not defined", name)),
             v |-> Undefined]

\* a faulty setVar that writes every name into context.globals
setVarGlobal(name, value, scope, scopes) ==
    [scopes EXCEPT ![1].vars = (name :> value) @@ @]

\* a faulty setVar that never looks up the chain
setVarLocal(name, value, scope, scopes) ==
    [scopes EXCEPT ![scope].vars = (name :> value) @@ @]

setVar(name, value, scope, scopes) ==
    LET o == Owner(scopes, scope, name)
    IN IF o # 0
       THEN [scopes EXCEPT ![o].vars = (name :> value) @@ @]
       ELSE [scopes EXCEPT ![scope].vars = (name :> value) @@ @]

(***************************************************************************)
(* evalExpr's general path: new Function(...varNames, 'keyDown', 'sin',    *)
(* 'cos', `return (${transformed});`) called with the values. The model    *)
(* parses and evaluates the fragment of JavaScript the programs use:       *)
(* numerals, true/false, identifiers, calls, parentheses, array literals,  *)
(* bracket indexing, unary - and !, and the binary operators of BinaryOps. *)
(* Whatever throws (a SyntaxError                                          *)
(* of the constructor, a ReferenceError or TypeError of the call) is ok =  *)
(* FALSE: the source's single catch.                                       *)
(***************************************************************************)
\* .replace(/\band\b/g, '&&').replace(/\bor\b/g, '||')
Transform(expr) ==
    [i \in 1..Len(expr) |->
        IF expr[i] = "and" THEN "&&" ELSE IF expr[i] = "or" THEN "||" ELSE expr[i]]

\* JavaScript's tokens: two-character operators are read as one, blanks dropped
RECURSIVE JsLex(_)
JsLex(ts) ==
    IF ts = <<>> THEN <<>>
    ELSE IF ts[1] = " " THEN JsLex(Tail(ts))
    ELSE IF Len(ts) >= 2 /\ ts[2] = "=" /\ ts[1] \in {"<", ">", "=", "!"}
    THEN <<IF ts[1] = "<" THEN "<=" ELSE IF ts[1] = ">" THEN ">="
           ELSE IF ts[1] = "=" THEN "==" ELSE "!=">> \o JsLex(Tail(Tail(ts)))
    ELSE <<ts[1]>> \o JsLex(Tail(ts))

\* binary operators by precedence level, loosest first
BinaryOps == << {"||"}, {"&&"}, {"==", "!="}, {"<", ">", "<=", ">="},
                {"+", "-"}, {"*"} >>

JsReserved == {"if", "else", "return", "function", "while", "for", "var", "new",
               "true", "false", "null", "this", "in", "do", "let", "const"}

\* a name new Function accepts as a parameter
IsJsIdentifier(name) ==
    Len(name) = 1 /\ IsWord(name[1]) /\ name[1] \notin JsReserved

ParseFail == [ok |-> FALSE, t |-> [op |-> "none"], p |-> 0]

RECURSIVE PLevel(_, _, _), PTail(_, _, _, _), PUnary(_, _), PPrimary(_, _),
          PArgs(_, _, _), PElems(_, _, _), PPostfix(_, _)

PLevel(ts, p, lvl) ==
    IF lvl > Len(BinaryOps) THEN PUnary(ts, p)
    ELSE LET l == PLevel(ts, p, lvl + 1)
         IN IF l.ok THEN PTail(ts, l.t, l.p, lvl) ELSE ParseFail

PTail(ts, left, p, lvl) ==
    IF Tok(ts, p) \in BinaryOps[lvl]
    THEN LET r == PLevel(ts, p + 1, lvl + 1)
         IN IF r.ok
            THEN PTail(ts, [op |-> "bin", f |-> ts[p], l |-> left, r |-> r.t],
                       r.p, lvl)
            ELSE ParseFail
    ELSE [ok |-> TRUE, t |-> left, p |-> p]

PUnary(ts, p) ==
    IF Tok(ts, p) \in {"-", "!"}
    THEN LET u == PUnary(ts, p + 1)
         IN IF u.ok
            THEN [ok |-> TRUE, t |-> [op |-> "un", f |-> ts[p], l |-> u.t],
                  p |-> u.p]
            ELSE ParseFail
    ELSE PPrimary(ts, p)

PPrimary(ts, p) ==
    LET t == Tok(ts, p)
    IN IF IsNumeral(t)
       THEN PPostfix(ts, [ok |-> TRUE,
                          t |-> [op |-> "lit", val |-> Num(NumeralValue[t])],
                          p |-> p + 1])
       ELSE IF t \in {"true", "false"}
       THEN PPostfix(ts, [ok |-> TRUE,
                          t |-> [op |-> "lit", val |-> Bool(t = "true")],
                          p |-> p + 1])
       ELSE IF IsStringLiteral(t)
       THEN PPostfix(ts, [ok |-> TRUE,
                          t |-> [op |-> "lit", val |-> Str(StringValue[t])],
                          p |-> p + 1])
       ELSE IF t = "("
       THEN LET e == PLevel(ts, p + 1, 1)
            IN IF e.ok /\ Tok(ts, e.p) = ")"
               THEN PPostfix(ts, [ok |-> TRUE, t |-> e.t, p |-> e.p + 1])
               ELSE ParseFail
       ELSE IF t = "["
       THEN IF Tok(ts, p + 1) = "]"
            THEN PPostfix(ts, [ok |-> TRUE, t |-> [op |-> "arr", args |-> <<>>],
                               p |-> p + 2])
            ELSE PPostfix(ts, PElems(ts, p + 1, [op |-> "arr", args |-> <<>>]))
       ELSE IF IsWord(t) /\ t \notin JsReserved
       THEN IF Tok(ts, p + 1) = "("
            THEN IF Tok(ts, p + 2) = ")"
                 THEN PPostfix(ts, [ok |-> TRUE,
                                    t |-> [op |-> "call", fn |-> t,
                                           args |-> <<>>],
                                    p |-> p + 3])
                 ELSE PPostfix(ts, PArgs(ts, p + 2,
                                         [op |-> "call", fn |-> t,
                                          args |-> <<>>]))
            ELSE PPostfix(ts, [ok |-> TRUE, t |-> [op |-> "var", name |-> t],
                               p |-> p + 1])
       ELSE ParseFail

\* what may follow a primary expression: [index], any number of times
PPostfix(ts, r) ==
    IF r.ok /\ Tok(ts, r.p) = "["
    THEN LET e == PLevel(ts, r.p + 1, 1)
         IN IF e.ok /\ Tok(ts, e.p) = "]"
            THEN PPostfix(ts, [ok |-> TRUE,
                               t |-> [op |-> "idx", l |-> r.t, r |-> e.t],
                               p |-> e.p + 1])
            ELSE ParseFail
    ELSE r

\* the elements of an array literal, up to its closing bracket
PElems(ts, p, arr) ==
    LET e == PLevel(ts, p, 1)
        more == [arr EXCEPT !.args = Append(@, e.t)]
    IN IF ~e.ok THEN ParseFail
       ELSE IF Tok(ts, e.p) = "," THEN PElems(ts, e.p + 1, more)
       ELSE IF Tok(ts, e.p) = "]" THEN [ok |-> TRUE, t |-> more, p |-> e.p + 1]
       ELSE ParseFail

PArgs(ts, p, call) ==
    LET e == PLevel(ts, p, 1)
        more == [call EXCEPT !.args = Append(@, e.t)]
    IN IF ~e.ok THEN ParseFail
       ELSE IF Tok(ts, e.p) = "," THEN PArgs(ts, e.p + 1, more)
       ELSE IF Tok(ts, e.p) = ")" THEN [ok |-> TRUE, t |-> more, p |-> e.p + 1]
       ELSE ParseFail

\* the whole text must be one expression
JsParse(expr) ==
    LET Whole(ts, e) == IF e.ok /\ e.p = Len(ts) + 1 THEN e ELSE ParseFail
        Lexed(ts) == Whole(ts, PLevel(ts, 1, 1))
    IN Lexed(JsLex(expr))

\* ToNumber of the values arithmetic is modelled on
IsNumeric(val) == val.k \in {"num", "bool", "undefined", "nan"}

ToNumber(val) == IF val.k \in {"num", "bool"} THEN Num(val.v) ELSE NaN

Arith(f, a, b) ==
    LET x == ToNumber(a)
        y == ToNumber(b)
    IN IF ~IsNumeric(a) \/ ~IsNumeric(b) THEN Opaque
       ELSE IF x.k = "nan" \/ y.k = "nan"
       THEN IF f \in {"+", "-", "*"} THEN NaN
            ELSE IF f = "==" THEN Bool(a.k = "undefined" /\ b.k = "undefined")
            ELSE IF f = "!=" THEN Bool(~(a.k = "undefined" /\ b.k = "undefined"))
            ELSE Bool(FALSE)
       ELSE CASE f = "+" -> Num(x.v + y.v)
              [] f = "-" -> Num(x.v - y.v)
              [] f = "*" -> Num(x.v * y.v)
              [] f = "<" -> Bool(x.v < y.v)
              [] f = ">" -> Bool(x.v > y.v)
              [] f = "<=" -> Bool(x.v <= y.v)
              [] f = ">=" -> Bool(x.v >= y.v)
              [] f = "==" -> Bool(x.v = y.v)
              [] f = "!=" -> Bool(x.v # y.v)

\* the three callables evalExpr passes after the variables
Builtin(name) == [k |-> "builtin", v |-> name]

CallBuiltin(name, args, keysDown) ==
    LET a == IF Len(args) >= 1 THEN args[1] ELSE Undefined
    IN IF name = "keyDown" THEN Bool(a.k = "str" /\ a.v \in keysDown)
       ELSE IF a.k = "num" /\ a.v = 0 THEN Num(IF name = "cos" THEN 1 ELSE 0)
       ELSE IF IsNumeric(a) /\ a.k # "num" /\ a.k # "bool" THEN NaN
       ELSE Opaque

EvalFail == [ok |-> FALSE, v |-> Undefined]

\* base[index]: reading a property of undefined throws a TypeError
Index(base, index) ==
    IF base.k = "undefined" THEN EvalFail
    ELSE IF base.k = "list"
    THEN IF index.k = "num" /\ index.v >= 0 /\ index.v < Len(base.v)
         THEN [ok |-> TRUE, v |-> base.v[index.v + 1]]
         ELSE [ok |-> TRUE, v |-> Undefined]
    ELSE IF base.k \in {"num", "bool", "nan"} THEN [ok |-> TRUE, v |-> Undefined]
    ELSE [ok |-> TRUE, v |-> Opaque]

RECURSIVE Eval(_, _, _), EvalAll(_, _, _)

Eval(t, env, keysDown) ==
    IF t.op = "lit" THEN [ok |-> TRUE, v |-> t.val]
    ELSE IF t.op = "var"
    THEN IF <<t.name>> \in DOMAIN env
         THEN [ok |-> TRUE, v |-> env[<<t.name>>]]
         ELSE EvalFail                                  \* ReferenceError
    ELSE IF t.op = "un"
    THEN LET a == Eval(t.l, env, keysDown)
         IN IF ~a.ok THEN EvalFail
            ELSE IF t.f = "!" THEN [ok |-> TRUE, v |-> Bool(~Truthy(a.v))]
            ELSE [ok |-> TRUE, v |-> Arith("-", Num(0), a.v)]
    ELSE IF t.op = "bin"
    THEN LET a == Eval(t.l, env, keysDown)
             b == Eval(t.r, env, keysDown)
         IN IF ~a.ok THEN EvalFail
            ELSE IF t.f = "&&" THEN (IF Truthy(a.v) THEN b ELSE a)
            ELSE IF t.f = "||" THEN (IF Truthy(a.v) THEN a ELSE b)
            ELSE IF ~b.ok THEN EvalFail
            ELSE [ok |-> TRUE, v |-> Arith(t.f, a.v, b.v)]
    ELSE IF t.op = "arr"
    THEN LET es == EvalAll(t.args, env, keysDown)
         IN IF es.ok THEN [ok |-> TRUE, v |-> List(es.v)] ELSE EvalFail
    ELSE IF t.op = "idx"
    THEN LET a == Eval(t.l, env, keysDown)
             b == Eval(t.r, env, keysDown)
         IN IF a.ok /\ b.ok THEN Index(a.v, b.v) ELSE EvalFail
    ELSE \* call
         LET as == EvalAll(t.args, env, keysDown)
         IN IF <<t.fn>> \notin DOMAIN env THEN EvalFail  \* ReferenceError
            ELSE IF ~as.ok THEN EvalFail
            ELSE IF env[<<t.fn>>].k # "builtin" THEN EvalFail  \* TypeError
            ELSE [ok |-> TRUE,
                  v |-> CallBuiltin(env[<<t.fn>>].v, as.v, keysDown)]

EvalAll(ts, env, keysDown) ==
    IF ts = <<>> THEN [ok |-> TRUE, v |-> <<>>]
    ELSE LET a == Eval(ts[1], env, keysDown)
             rest == EvalAll(Tail(ts), env, keysDown)
         IN IF a.ok /\ rest.ok THEN [ok |-> TRUE, v |-> <<a.v>> \o rest.v]
            ELSE [ok |-> FALSE, v |-> <<>>]

\* the names Object.keys finds along the chain from scope to the root
RECURSIVE ChainNames(_, _)
ChainNames(scopes, s) ==
    IF s = 0 THEN {}
    ELSE DOMAIN scopes[s].vars \cup ChainNames(scopes, scopes[s].parent)

\* varNames/varVals, the nearest owner's value for each name, then the callables
FunctionEnv(scopes, scope) ==
    LET names == ChainNames(scopes, scope)
        builtins == {<<"keyDown">>, <<"sin">>, <<"cos">>}
    IN [n \in names \cup builtins |->
           IF n \in builtins THEN Builtin(n[1])
           ELSE scopes[Owner(scopes, scope, n)].vars[n]]

\* !isNaN(Number(expr))
IsNumberText(expr) ==
    \/ Len(expr) = 1 /\ IsNumeral(expr[1])
    \/ Len(expr) = 2 /\ expr[1] \in {"-", "+"} /\ IsNumeral(expr[2])

NumberOf(expr) ==
    IF Len(expr) = 1 THEN NumeralValue[expr[1]]
    ELSE IF expr[1] = "-" THEN 0 - NumeralValue[expr[2]]
    ELSE NumeralValue[expr[2]]

evalExpr(expr, w, c, scope) ==
    IF expr = <<>> THEN [w |-> w, v |-> Undefined]
    ELSE IF IsNumberText(expr) THEN [w |-> w, v |-> Num(NumberOf(expr))]
    ELSE IF Len(expr) = 1 /\ IsWord(expr[1]) THEN getVar(expr, scope, w, c)
    ELSE LET scopes == w.ctxs[c].scopes
             caught == [w |-> handleError(w, c,
                                          Message("Failed to evaluate", expr)),
                        v |-> Undefined]
             \* fn(...varVals, keyDown, sin, cos)
             Called(r) == IF r.ok THEN [w |-> w, v |-> r.v] ELSE caught
             \* new Function(...varNames, 'keyDown', 'sin', 'cos', body)
             Made(parsed) ==
                 IF parsed.ok
                    /\ \A n \in ChainNames(scopes, scope) : IsJsIdentifier(n)
                 THEN Called(Eval(parsed.t, FunctionEnv(scopes, scope),
                                  w.ctxs[c].keysDown))
                 ELSE caught
         IN Made(JsParse(Transform(expr)))

(***************************************************************************)
(* interpreter.ts: executeNode, executeFunction, interpret. Each returns   *)
(* the world it leaves. The ghost log gets one "stmt" entry per node       *)
(* executed, and one entry per print, drawing command and function entry.  *)
(***************************************************************************)
\* a property of a node, undefined when the node has none of that name
Field(node, name) == IF name \in DOMAIN node THEN node[name] ELSE Undefined

\* element i of a destructured array
Nth(vals, i) == IF i <= Len(vals) THEN vals[i] ELSE Undefined

\* colorStack[colorStack.length - 1] ?? 'rgb(0,0,0)'
TopColor(colorStack) ==
    IF colorStack = <<>> THEN DefaultColor ELSE colorStack[Len(colorStack)]

\* a faulty push that makes room at the top instead of the bottom
PushColorTop(colorStack, col) ==
    LET pushed == Append(colorStack, col)
    IN IF Len(pushed) > MaxColors
       THEN Append(SubSeq(pushed, 1, MaxColors - 1), col)
       ELSE pushed

\* the stack after push(colorString) and the shift loop
PushColor(colorStack, col) ==
    LET pushed == Append(colorStack, col)
    IN IF Len(pushed) > MaxColors
       THEN SubSeq(pushed, Len(pushed) - MaxColors + 1, Len(pushed))
       ELSE pushed

\* a faulty pop that does not reseed an emptied stack
PopColorBare(colorStack) ==
    IF colorStack = <<>> THEN <<>>
    ELSE SubSeq(colorStack, 1, Len(colorStack) - 1)

\* a faulty pop that takes nothing off the stack
PopColorKeep(colorStack) ==
    IF colorStack = <<>> THEN <<DefaultColor>> ELSE colorStack

\* the stack after pop() and the reseeding
PopColor(colorStack) ==
    LET popped == IF colorStack = <<>> THEN <<>>
                  ELSE SubSeq(colorStack, 1, Len(colorStack) - 1)
    IN IF popped = <<>> THEN <<DefaultColor>> ELSE popped

\* context.colorStack replaced; the ghost "stack" event says by which
\* operation, with which colour, and what the stack was and is
Restack(w, c, op, col, stack) ==
    Emit([w EXCEPT !.ctxs[c].colorStack = stack], "stack", c,
         [op |-> op, col |-> col, before |-> w.ctxs[c].colorStack,
          after |-> stack])

\* `rgb(${r}, ${g}, ${b})`
ColorString(r, g, b) == [fmt |-> "rgb(r, g, b)", rgb |-> <<r, g, b>>]

\* a faulty evaluation of the arguments of a Call that evaluates none
EvalArgsNone(args, w, c, scope) == [w |-> w, v |-> <<>>]

\* node.args.map(arg => evalExpr(arg, context, scope))
RECURSIVE EvalArgs(_, _, _, _)
EvalArgs(args, w, c, scope) ==
    IF args = <<>> THEN [w |-> w, v |-> <<>>]
    ELSE LET Cons(a, rest) == [w |-> rest.w, v |-> <<a.v>> \o rest.v]
             First(a) == Cons(a, EvalArgs(Tail(args), a.w, c, scope))
         IN First(evalExpr(args[1], w, c, scope))

Draw(w, c, cmd, args) ==
    LET command == [cmd |-> cmd, args |-> args,
                    color |-> TopColor(w.ctxs[c].colorStack)]
    IN Emit([w EXCEPT !.ctxs[c].drawingCommands = Append(@, command)],
            "draw", c, command)

\* a faulty target of CanvasSize: the scope the node is executed in
currentScope(scope) == scope

\* context.globals, whatever the scope the node is executed in
contextGlobals(scope) == 1

\* a faulty registration that keeps the declaration a name already has
registerFirst(functions, node) == functions @@ (node.name :> node)

\* context.functions[node.name] = node
register(functions, node) == (node.name :> node) @@ functions

\* setVar(name, value, scope) on the scopes of context c; the ghost "write"
\* event keeps the scopes it leaves
Write(w, c, name, value, scope) ==
    LET Wrote(scopes) ==
            Emit([w EXCEPT !.ctxs[c].scopes = scopes], "write", c,
                 [name |-> name, scope |-> scope, scopes |-> scopes])
    IN Wrote(setVar(name, value, scope, w.ctxs[c].scopes))

RECURSIVE executeNode(_, _, _, _), ExecList(_, _, _, _),
          LoopForFrom(_, _, _, _, _), LoopWhileFrom(_, _, _, _, _),
          executeFunction(_, _, _, _, _), BindParams(_, _, _, _, _, _, _),
          ExecBody(_, _, _, _)

\* a faulty statement loop that a ReturnStatement ends
ExecListToReturn(body, w, c, scope) ==
    IF body = <<>> \/ body[1].type = "ReturnStatement" THEN w
    ELSE Only({ExecList(Tail(body), w1, c, scope) :
                  w1 \in {executeNode(body[1], w, c, scope)}})

\* for (const stmt of body) executeNode(stmt, context, scope)
ExecList(body, w, c, scope) ==
    IF body = <<>> THEN w
    ELSE Only({ExecList(Tail(body), w1, c, scope) :
                  w1 \in {executeNode(body[1], w, c, scope)}})

\* for (let i = ...; i < count; i++): the passes from i on
LoopForFrom(node, w, c, loopScope, i) ==
    LET count == Field(node, "count")
        w1 == IF node.varName # <<>>
              THEN Write(w, c, node.varName, Num(i), loopScope)
              ELSE w
    IN IF Truthy(Arith("<", Num(i), count))
       THEN Only({LoopForFrom(node, w2, c, loopScope, i + 1) :
                     w2 \in {ExecList(node.body, w1, c, loopScope)}})
       ELSE w

\* while (evalExpr(condition, ...)): at most fuel passes are followed
LoopWhileFrom(node, w, c, whileScope, fuel) ==
    LET Pass(wc, v) ==
            IF ~Truthy(v) THEN wc
            ELSE IF fuel = 0 THEN Emit(wc, "hang", c, 0)
            ELSE Only({LoopWhileFrom(node, w2, c, whileScope, fuel - 1) :
                          w2 \in {ExecList(node.body, wc, c, whileScope)}})
        Test(cond) ==
            Pass(Emit(cond.w, "cond", c,
                      [at |-> node.at, scope |-> whileScope, v |-> cond.v]),
                 cond.v)
    IN Test(evalExpr(node.condition, w, c, whileScope))

executeNode(node, w0, c, scope) ==
    LET w == Emit(w0, "stmt", c, node.at)
        ctx == w.ctxs[c]
    IN IF node.type = "CanvasSize" THEN
           Write(w, c, <<"CanvasSize">>,
                 List(<<Num(node.width), Num(node.height)>>),
                 contextGlobals(scope))
       ELSE IF node.type = "FunctionDeclaration" THEN
           [w EXCEPT !.ctxs[c].functions = register(@, node)]
       ELSE IF node.type = "Assignment" THEN
           LET Assign(value) ==
                   Write(value.w, c, node.varName, value.v, scope)
           IN Assign(evalExpr(node.value, w, c, scope))
       ELSE IF node.type = "LoopFor" THEN
           LoopForFrom(node,
                       Emit([w EXCEPT !.ctxs[c].scopes =
                                createChildScope(@, scope)],
                            "loop", c,
                            [at |-> node.at, parent |-> scope,
                             scope |-> Len(ctx.scopes) + 1]),
                       c, Len(ctx.scopes) + 1, 0)
       ELSE IF node.type = "LoopWhile" THEN
           LoopWhileFrom(node,
                         Emit([w EXCEPT !.ctxs[c].scopes =
                                  createChildScope(@, scope)],
                              "loop", c,
                              [at |-> node.at, parent |-> scope,
                               scope |-> Len(ctx.scopes) + 1]),
                         c, Len(ctx.scopes) + 1, MaxWhilePasses)
       ELSE IF node.type = "IfStatement" THEN
           LET Branch(wc, v) ==
                   IF Truthy(v)
                   THEN ExecList(node.consequent, wc, c, scope)
                   ELSE ExecList(node.alternate, wc, c, scope)
               Test(cond) ==
                   Branch(Emit(cond.w, "cond", c,
                               [at |-> node.at, scope |-> scope, v |-> cond.v]),
                          cond.v)
           IN Test(evalExpr(node.condition, w, c, scope))
       ELSE IF node.type = "Call" THEN
           LET Dispatch(wa, a) ==
                   IF node.callee = "print" THEN Emit(wa, "print", c, a)
                   ELSE IF node.callee = "circle"
                   THEN Draw(wa, c, "circle",
                             <<Nth(a, 1), Nth(a, 2), Nth(a, 3)>>)
                   ELSE IF node.callee = "rectangle"
                   THEN Draw(wa, c, "rectangle",
                             <<Nth(a, 1), Nth(a, 2), Nth(a, 3), Nth(a, 4)>>)
                   ELSE IF node.callee = "color"
                   THEN Restack(wa, c, "color",
                                ColorString(Nth(a, 1), Nth(a, 2), Nth(a, 3)),
                                PushColor(wa.ctxs[c].colorStack,
                                          ColorString(Nth(a, 1), Nth(a, 2),
                                                      Nth(a, 3))))
                   ELSE IF node.callee = "popColor"
                   THEN Restack(wa, c, "popColor", DefaultColor,
                                PopColor(wa.ctxs[c].colorStack))
                   ELSE executeFunction(node.callee, node.args, wa, c, scope).w
               Evaluated(argVals) == Dispatch(argVals.w, argVals.v)
           IN Evaluated(EvalArgs(node.args, w, c, scope))
       ELSE w      \* ReturnStatement, Noop, Unknown

\* the parameters from i on: evaluated in the caller's scope, set in funcScope
BindParams(params, rawArgs, w, c, callerScope, funcScope, i) ==
    IF i > Len(params) THEN w
    ELSE LET raw == IF i <= Len(rawArgs) THEN rawArgs[i] ELSE <<>>
             Bind(argValue) ==
                 Write(argValue.w, c, params[i], argValue.v, funcScope)
         IN BindParams(params, rawArgs, Bind(evalExpr(raw, w, c, callerScope)),
                       c, callerScope, funcScope, i + 1)

\* a faulty body loop that takes a ReturnStatement for any other statement
ExecBodyThrough(body, w, c, funcScope) ==
    [w |-> ExecList(body, w, c, funcScope), v |-> Undefined]

\* the body loop: the first direct ReturnStatement ends it with its value
ExecBody(body, w, c, funcScope) ==
    IF body = <<>> THEN [w |-> w, v |-> Undefined]
    ELSE IF body[1].type = "ReturnStatement"
    THEN evalExpr(body[1].expression, w, c, funcScope)
    ELSE Only({ExecBody(Tail(body), w1, c, funcScope) :
                  w1 \in {executeNode(body[1], w, c, funcScope)}})

executeFunction(name, rawArgs, w, c, callerScope) ==
    LET ctx == w.ctxs[c]
    IN IF name \notin DOMAIN ctx.functions
       THEN [w |-> handleError(w, c, Message("Function not defined", <<name>>)),
             v |-> Undefined]
       ELSE LET funcNode == ctx.functions[name]
                funcScope == Len(ctx.scopes) + 1
                w1 == Emit([w EXCEPT !.ctxs[c].scopes =
                               createChildScope(@, callerScope)],
                           "enter", c, name)
                Bound(w2) ==
                    Emit(w2, "bound", c,
                         [name |-> name, args |-> rawArgs,
                          caller |-> callerScope, scope |-> funcScope,
                          before |-> ctx.scopes,
                          after |-> w2.ctxs[c].scopes])
                Leave(r) ==
                    [w |-> Emit(r.w, "return", c,
                                [name |-> name, scope |-> funcScope,
                                 scopes |-> r.w.ctxs[c].scopes, v |-> r.v]),
                     v |-> r.v]
            IN Leave(ExecBody(funcNode.body,
                              Bound(BindParams(funcNode.args, rawArgs, w1, c,
                                               callerScope, funcScope, 1)),
                              c, funcScope))

\* interpret(ast, context): every top-level node in context.globals
interpret(ast, w, c) == ExecList(ast, w, c, 1)

(***************************************************************************)
(* interpreter.ts: startProgram and its frame loop; Project: pollCommands. *)
(* A callback requested with requestAnimationFrame is <<kind, c>>.         *)
(***************************************************************************)
Request(w, kind, c) == [w EXCEPT !.raf = Append(@, <<kind, c>>)]

\* a faulty loop that keeps the buffer of the frame before
loopKeep(w, c) ==
    IF ~w.ctxs[c].running THEN Emit(w, "tick", c, FALSE)
    ELSE Request(executeFunction("run", <<>>, Emit(w, "tick", c, TRUE), c, 1).w,
                 "loop", c)

\* a faulty loop that never looks at the running flag
loopUnchecked(w, c) ==
    LET w0 == Emit(w, "tick", c, TRUE)
        w1 == Emit([w0 EXCEPT !.ctxs[c].drawingCommands = <<>>],
                   "clear", c, 0)
    IN Request(executeFunction("run", <<>>, w1, c, 1).w, "loop", c)

\* a faulty loop that seeds the color stack anew in every frame
loopReseed(w, c) ==
    IF ~w.ctxs[c].running THEN Emit(w, "tick", c, FALSE)
    ELSE LET w0 == Restack(Emit(w, "tick", c, TRUE), c, "init", DefaultColor,
                           <<DefaultColor>>)
             w1 == Emit([w0 EXCEPT !.ctxs[c].drawingCommands = <<>>],
                        "clear", c, 0)
             w2 == executeFunction("run", <<>>, w1, c, 1).w
         IN Request(w2, "loop", c)

\* the closure loop of startProgram
loop(w, c) ==
    IF ~w.ctxs[c].running THEN Emit(w, "tick", c, FALSE)
    ELSE LET w0 == Emit(w, "tick", c, TRUE)
             w1 == Emit([w0 EXCEPT !.ctxs[c].drawingCommands = <<>>],
                        "clear", c, 0)
             w2 == executeFunction("run", <<>>, w1, c, 1).w
         IN Request(w2, "loop", c)

\* a faulty startProgram that starts the frame loop whatever is registered
startProgramAlways(w, c) ==
    loop([w EXCEPT !.ctxs[c].keysDown = {},
                   !.ctxs[c].colorStack = <<DefaultColor>>,
                   !.ctxs[c].running = TRUE], c)

startProgram(w, c) ==
    LET w1 == Restack([w EXCEPT !.ctxs[c].keysDown = {}], c, "init",
                      DefaultColor, <<DefaultColor>>)
    IN IF "run" \in DOMAIN w1.ctxs[c].functions
       THEN loop([w1 EXCEPT !.ctxs[c].running = TRUE], c)
       ELSE handleError(w1, c, Message("No run() function found", <<>>))

\* Project.runCode: the closure pollCommands
pollCommands(w, c) ==
    IF ~w.ctxs[c].running THEN Emit(w, "poll", c, FALSE)
    ELSE Request(Emit([w EXCEPT !.drawn = w.ctxs[c].drawingCommands],
                      "publish", c, 0),
                 "poll", c)

\* when a handler returns, the child scopes it created are garbage
Collect(w) ==
    [w EXCEPT !.ctxs = [i \in 1..Len(w.ctxs) |->
                           [w.ctxs[i] EXCEPT
                               !.scopes = <<w.ctxs[i].scopes[1]>>]]]

(***************************************************************************)
(* The Project component: runCode, stopCode, and the browser delivering    *)
(* animation frames. The callbacks requested during one frame run in the   *)
(* next, in the order requested; Run, Stop and edits happen between        *)
(* frames. code holds the program as the line records lex yields.          *)
(***************************************************************************)
World(handler, c) ==
    [ctxs |-> ctxs, ref |-> contextRef, errors |-> errors, drawn |-> drawn,
     canvasSize |-> canvasSize, raf |-> rafNext,
     log |-> <<[e |-> handler, c |-> c, d |-> 0]>>]

Commit(w) ==
    /\ ctxs' = w.ctxs
    /\ contextRef' = w.ref
    /\ errors' = w.errors
    /\ drawn' = w.drawn
    /\ canvasSize' = w.canvasSize
    /\ rafNext' = w.raf
    /\ log' = w.log

runCode(w, tokens) ==
    LET c == Len(w.ctxs) + 1
        ast == parse(tokens)
        w1 == [w EXCEPT !.errors = <<>>, !.ctxs = Append(@, NewContext)]
        size(globals) == IF <<"CanvasSize">> \in DOMAIN globals
                            /\ globals[<<"CanvasSize">>].k = "list"
                         THEN globals[<<"CanvasSize">>].v
                         ELSE <<Num(800), Num(600)>>
        Interpreted(w2) ==
            startProgram([w2 EXCEPT !.canvasSize =
                                        size(w2.ctxs[c].scopes[1].vars)], c)
        w4 == pollCommands(Interpreted(interpret(ast, w1, c)), c)
    IN [w4 EXCEPT !.ref = c]

stopCode(w) ==
    IF w.ref # 0 THEN [w EXCEPT !.ctxs[w.ref].running = FALSE] ELSE w

L(i, v) == [value |-> v, indent |-> i]

\* the lines as top-level statements
AtTop(lines) == [i \in 1..Len(lines) |-> L(0, lines[i])]

\* the lines as the body of run()
InRun(lines) ==
    <<L(0, <<"function", " ", "run", "(", ")", ":">>)>> \o
        [i \in 1..Len(lines) |-> L(4, lines[i])]

\* CanvasSize=(500,500); x=0; function run(): circle(x,300,30); x=x+2; if x>500: x=0
BallProgram == <<
    L(0, <<"CanvasSize", "=", "(", "500", ",", "500", ")">>),
    L(0, <<"x", "=", "0">>),
    L(0, <<"function", " ", "run", "(", ")", ":">>),
    L(4, <<"circle", "(", "x", ",", "300", ",", "30", ")">>),
    L(4, <<"x", "=", "x", "+", "2">>),
    L(4, <<"if", " ", "x", ">", "500", ":">>),
    L(8, <<"x", "=", "0">>) >>

\* x=0; circle(5,5,5); function run(): circle(x,1,1); rectangle(x,1,2,2);
\* x=x+1; if x>2: x=0
AnimProgram == <<
    L(0, <<"x", " ", "=", " ", "0">>),
    L(0, <<"circle", "(", "5", ",", " ", "5", ",", " ", "5", ")">>),
    L(0, <<"function", " ", "run", "(", ")", ":">>),
    L(4, <<"circle", "(", "x", ",", "1", ",", "1", ")">>),
    L(4, <<"rectangle", "(", "x", ",", "1", ",", "2", ",", "2", ")">>),
    L(4, <<"x", "=", "x", "+", "1">>),
    L(4, <<"if", " ", "x", ">", "2", ":">>),
    L(8, <<"x", "=", "0">>) >>

\* function run(): circle(1,1,1); y=zz; circle(2,2,2)
FaultyProgram == <<
    L(0, <<"function", " ", "run", "(", ")", ":">>),
    L(4, <<"circle", "(", "1", ",", "1", ",", "1", ")">>),
    L(4, <<"y", " ", "=", " ", "zz">>),
    L(4, <<"circle", "(", "2", ",", "2", ",", "2", ")">>) >>

\* x=0; circle(1,1,1): nothing named run
StillProgram == <<
    L(0, <<"x", "=", "0">>),
    L(0, <<"circle", "(", "1", ",", "1", ",", "1", ")">>) >>

Programs == {AnimProgram, FaultyProgram, StillProgram}

\* the editor's onChange
SetCode ==
    /\ rafNow = <<>>
    /\ \E p \in Programs \ {code} : code' = p
    /\ log' = <<[e |-> "setCode", c |-> 0, d |-> 0]>>
    /\ UNCHANGED <<ctxs, contextRef, errors, drawn, canvasSize, rafNow, rafNext,
                   stopped, budget, arg, res>>

RunCode ==
    /\ rafNow = <<>>
    /\ budget > 0
    /\ budget' = budget - 1
    /\ Commit(Collect(runCode(World("runCode", Len(ctxs) + 1), code)))
    /\ stopped' = FALSE
    /\ UNCHANGED <<code, rafNow, arg, res>>

StopCode ==
    /\ rafNow = <<>>
    /\ Commit(stopCode(World("stopCode", contextRef)))
    /\ stopped' = TRUE
    /\ UNCHANGED <<code, rafNow, budget, arg, res>>

BeginFrame ==
    /\ rafNow = <<>>
    /\ rafNext # <<>>
    /\ Len(errors) < MaxErrors
    /\ rafNow' = rafNext
    /\ rafNext' = <<>>
    /\ log' = <<[e |-> "frame", c |-> 0, d |-> 0]>>
    /\ UNCHANGED <<code, ctxs, contextRef, errors, drawn, canvasSize, stopped,
                   budget, arg, res>>

LoopCallback ==
    /\ rafNow # <<>>
    /\ Head(rafNow)[1] = "loop"
    /\ Commit(Collect(loop(World("callback", Head(rafNow)[2]),
                            Head(rafNow)[2])))
    /\ rafNow' = Tail(rafNow)
    /\ UNCHANGED <<code, stopped, budget, arg, res>>

PollCallback ==
    /\ rafNow # <<>>
    /\ Head(rafNow)[1] = "poll"
    /\ Commit(pollCommands(World("callback", Head(rafNow)[2]),
                            Head(rafNow)[2]))
    /\ rafNow' = Tail(rafNow)
    /\ UNCHANGED <<code, stopped, budget, arg, res>>

\* a faulty keyup listener that leaves the key in the set
onKeyUpKeep(keysDown, key) == keysDown

\* window's keydown listener of a context: context.keysDown.add(e.key)
onKeyDown(keysDown, key) == keysDown \cup {key}

\* window's keyup listener of a context: context.keysDown.delete(e.key)
onKeyUp(keysDown, key) == keysDown \ {key}

\* a key event: the listeners of the first n contexts, in the order in
\* which startProgram added them, each on the set of its own context
RECURSIVE Deliver(_, _, _, _)
Deliver(cs, n, key, down) ==
    IF n = 0 THEN <<>>
    ELSE Append(Deliver(cs, n - 1, key, down),
                [cs[n] EXCEPT !.keysDown = IF down THEN onKeyDown(@, key)
                                           ELSE onKeyUp(@, key)])

\* the browser delivers a key event between two frames; arg keeps the
\* events delivered so far, each with the number of contexts it reached
KeyEvent(key, down) ==
    /\ rafNow = <<>>
    /\ Len(arg) < MaxKeyEvents
    /\ ctxs' = Deliver(ctxs, Len(ctxs), key, down)
    /\ arg' = Append(arg, [key |-> key, down |-> down, n |-> Len(ctxs)])
    /\ log' = <<[e |-> IF down THEN "keydown" ELSE "keyup", c |-> 0, d |-> key]>>
    /\ UNCHANGED <<code, contextRef, errors, drawn, canvasSize, rafNow, rafNext,
                   stopped, budget, res>>

KeyDown == \E key \in Keys : KeyEvent(key, TRUE)

KeyUp == \E key \in Keys : KeyEvent(key, FALSE)

\* the component as mounted: the initial values of its state and its ref
Mounted ==
    /\ ctxs = <<>>
    /\ contextRef = 0
    /\ errors = <<>>
    /\ drawn = <<>>
    /\ canvasSize = <<Num(500), Num(500)>>
    /\ rafNow = <<>>
    /\ rafNext = <<>>
    /\ log = <<>>
    /\ stopped = FALSE

ProjectInit == Mounted /\ arg = <<>> /\ res = <<>>

(***************************************************************************)
(* Spec: the Project page. The user edits, presses Run and Stop between    *)
(* frames; the browser delivers the frames.                                *)
(***************************************************************************)
Init == ProjectInit /\ code \in Programs /\ budget = MaxRuns

Next ==
    \/ SetCode
    \/ RunCode
    \/ StopCode
    \/ BeginFrame
    \/ LoopCallback
    \/ PollCallback

Spec == Init /\ [][Next]_vars

(***************************************************************************)
(* SpecBall: the bouncing-ball program, run once and left ticking.         *)
(***************************************************************************)
InitBall == ProjectInit /\ code = BallProgram /\ budget = 1

NextBall == RunCode \/ BeginFrame \/ LoopCallback \/ PollCallback

SpecBall == InitBall /\ [][NextBall]_vars

(***************************************************************************)
(* SpecSetVar: setVar applied once to a name, a value, a scope and an      *)
(* arena. In an arena the parent of a scope is an earlier scope, the       *)
(* parent of the root is 0; a scope binds some of ScopeNames.              *)
(***************************************************************************)
ScopeNames == {<<"a">>, <<"b">>}

VarMaps == UNION {[D -> {Num(0)}] : D \in SUBSET ScopeNames}

Arenas ==
    UNION {{sc \in [1..n -> [parent : 0..(n - 1), vars : VarMaps]] :
               /\ sc[1].parent = 0
               /\ \A i \in 2..n : sc[i].parent \in 1..(i - 1)} :
           n \in 1..MaxScopes}

SetVarInputs ==
    {in \in [name : ScopeNames, value : {Num(1)}, scope : 1..MaxScopes,
             scopes : Arenas] : in.scope <= Len(in.scopes)}

InitSetVar ==
    /\ Mounted
    /\ code = <<>>
    /\ budget = 1
    /\ arg \in SetVarInputs
    /\ res = <<>>

CallSetVar ==
    /\ budget = 1
    /\ budget' = 0
    /\ res' = setVar(arg.name, arg.value, arg.scope, arg.scopes)
    /\ UNCHANGED <<code, ctxs, contextRef, errors, drawn, canvasSize, rafNow,
                   rafNext, log, stopped, arg>>

SpecSetVar == InitSetVar /\ [][CallSetVar]_vars

(***************************************************************************)
(* SpecParse: parse applied once to a sequence of line records.            *)
(***************************************************************************)
ParseLines ==
    { <<"if", " ", "x", ":">>,
      <<"else", ":">>,
      <<"a", "(", ")">>,
      <<"loop", " ", "while", " ", "x", ":">>,
      <<"loop", " ", "x", ":">>,
      <<"function", " ", "f", "(", ")", ":">> }

ParseIndents == {0, 4, 8}

RecordSeqs ==
    UNION {[1..n -> [value : ParseLines, indent : ParseIndents]] :
           n \in 0..MaxRecords}

InitParse ==
    /\ Mounted
    /\ code \in RecordSeqs
    /\ budget = 1
    /\ arg = <<>>
    /\ res = <<>>

CallParse ==
    /\ budget = 1
    /\ budget' = 0
    /\ res' = parse(code)
    /\ UNCHANGED <<code, ctxs, contextRef, errors, drawn, canvasSize, rafNow,
                   rafNext, log, stopped, arg>>

SpecParse == InitParse /\ [][CallParse]_vars

(***************************************************************************)
(* SpecLex: lex applied once to a sequence of physical lines.              *)
(***************************************************************************)
LexLines ==
    { <<"x">>,
      <<" ", " ", "y">>,
      <<"a", " ", "=", " ", "[">>,
      <<" ", "[", "1", ",">>,
      <<"]">>,
      <<"]", "]">>,
      <<>>,
      <<" ", "#", " ", "[">> }

LexInputs == UNION {[1..n -> LexLines] : n \in 0..MaxLines}

InitLex ==
    /\ Mounted
    /\ code = <<>>
    /\ budget = 1
    /\ arg \in LexInputs
    /\ res = <<>>

CallLex ==
    /\ budget = 1
    /\ budget' = 0
    /\ res' = lex(arg)
    /\ UNCHANGED <<code, ctxs, contextRef, errors, drawn, canvasSize, rafNow,
                   rafNext, log, stopped, arg>>

SpecLex == InitLex /\ [][CallLex]_vars

(***************************************************************************)
(* SpecNode: a list of nodes executed once in a scope of a chain of        *)
(* scopes, as interpret executes the program and executeNode and           *)
(* executeFunction execute a body. The chain is context.globals and the    *)
(* scopes derived from it one after the other; scope i binds some of       *)
(* ChainVarNames to i, x in one scope at most (setVar never binds a name   *)
(* that a scope further up binds). The nodes are parsed from lines; a      *)
(* counted loop is the                                                     *)
(* node of the parse of parser.ts that reads the count as a number.        *)
(***************************************************************************)
RECURSIVE Counted(_)

\* the LoopFor node with count: Number(match[2])
CountedNode(node) ==
    IF node.type = "LoopFor" /\ Len(node.countExpr) = 1
          /\ IsNumeral(node.countExpr[1])
    THEN [type |-> "LoopFor", varName |-> node.varName,
          count |-> Num(NumeralValue[node.countExpr[1]]),
          body |-> Counted(node.body), at |-> node.at]
    ELSE IF node.type = "IfStatement"
    THEN [node EXCEPT !.consequent = Counted(@), !.alternate = Counted(@)]
    ELSE IF "body" \in DOMAIN node THEN [node EXCEPT !.body = Counted(@)]
    ELSE node

Counted(block) == [k \in DOMAIN block |-> CountedNode(block[k])]

ChainVarNames == {<<"x">>, <<"CanvasSize">>}

Chains ==
    UNION {{sc \in [1..n -> [parent : 0..(n - 1),
                             vars : UNION {[D -> 1..n] : D \in SUBSET ChainVarNames}]] :
               /\ \A i \in 1..n :
                      /\ sc[i].parent = i - 1
                      /\ \A name \in DOMAIN sc[i].vars : sc[i].vars[name] = i
               /\ \A i, j \in 1..n :
                      i # j => <<"x">> \notin DOMAIN sc[i].vars
                                  \/ <<"x">> \notin DOMAIN sc[j].vars} :
           n \in 1..MaxDepth}

\* the chain with its numbers as values of the language
RECURSIVE ChainUpTo(_, _)
ChainUpTo(sc, n) ==
    IF n = 0 THEN <<>>
    ELSE Append(ChainUpTo(sc, n - 1),
                [parent |-> sc[n].parent,
                 vars |-> [name \in DOMAIN sc[n].vars |->
                              Num(sc[n].vars[name])]])

ChainOf(sc) == ChainUpTo(sc, Len(sc))

FunctionF(body) ==
    <<L(0, <<"function", " ", "f", "(", ")", ":">>)>> \o
        [i \in 1..Len(body) |-> L(4, body[i])]

CallF == L(0, <<"f", "(", ")">>)

CanvasLine(i, wd, ht) ==
    L(i, <<"CanvasSize", " ", "=", " ", "(", wd, ",", " ", ht, ")">>)

CanvasPrograms ==
    { <<CanvasLine(0, "1", "2")>>,
      <<CanvasLine(0, "1", "2"), CanvasLine(0, "3", "4")>>,
      <<L(0, <<"function", " ", "f", "(", ")", ":">>), CanvasLine(4, "3", "4"),
        CallF>>,
      <<L(0, <<"loop", " ", "i", "=", "2", " ", "times", ":">>),
        CanvasLine(4, "5", "2")>> }

PrintLine(i, t) == L(i, <<"print", "(", t, ")">>)

DeclPrograms ==
    { FunctionF(<< <<"print", "(", "1", ")">> >>) \o <<CallF>>,
      FunctionF(<< <<"print", "(", "1", ")">> >>)
          \o FunctionF(<< <<"print", "(", "2", ")">> >>) \o <<CallF>>,
      FunctionF(<< <<"print", "(", "1", ")">> >>) \o <<CallF>>
          \o FunctionF(<< <<"print", "(", "2", ")">> >>) \o <<CallF>>,
      <<L(0, <<"function", " ", "g", "(", ")", ":">>),
        L(4, <<"function", " ", "f", "(", ")", ":">>),
        PrintLine(8, "2")>>
          \o FunctionF(<< <<"print", "(", "1", ")">> >>)
          \o <<CallF, L(0, <<"g", "(", ")">>), CallF>> }

\* loop i=n times: print(t), then t = value
LoopProgram(n, value) ==
    <<L(0, <<"loop", " ", "i", "=", n, " ", "times", ":">>),
      PrintLine(4, "t"),
      L(4, <<"t", " ", "=", " ">> \o value)>>

LoopPrograms ==
    {LoopProgram(n, value) :
        n \in {"0", "1", "2", "3"}, value \in {<<"i">>, <<"5">>, <<"x">>}}

WhilePrograms ==
    { <<L(0, <<"loop", " ", "while", " ", "x", " ", "<", " ", "3", ":">>),
        L(4, <<"x", " ", "=", " ", "x", " ", "+", " ", "1">>)>>,
      <<L(0, <<"t", " ", "=", " ", "2">>),
        L(0, <<"loop", " ", "while", " ", "t", ":">>),
        L(4, <<"t", " ", "=", " ", "t", " ", "-", " ", "1">>)>>,
      <<L(0, <<"loop", " ", "while", " ", "1", ":">>),
        PrintLine(4, "1")>>,
      <<L(0, <<"loop", " ", "while", " ", "x", " ", "<", " ", "3", ":">>),
        L(4, <<"x", " ", "=", " ", "x", " ", "+", " ", "1">>),
        L(4, <<"loop", " ", "while", " ", "0", ":">>),
        PrintLine(8, "1")>>,
      <<L(0, <<"loop", " ", "while", " ", "x", " ", "<", " ", "3", ":">>),
        L(4, <<"a", "[", "0", "]", " ", "=", " ", "1">>)>>,
      <<L(0, <<"loop", " ", "while", " ", "t", ":">>),
        PrintLine(4, "1")>> }

IfPrograms ==
    { <<L(0, <<"if", " ", "x", " ", "<", " ", "2", ":">>),
        L(4, <<"t", " ", "=", " ", "1">>),
        L(0, <<"else", ":">>),
        L(4, <<"t", " ", "=", " ", "2">>),
        PrintLine(0, "t")>>,
      <<L(0, <<"if", " ", "x", " ", "<", " ", "2", ":">>),
        L(4, <<"t", " ", "=", " ", "1">>),
        L(4, <<"s", " ", "=", " ", "t">>)>>,
      <<L(0, <<"if", " ", "x", ":">>),
        L(4, <<"t", " ", "=", " ", "1">>),
        L(0, <<"else", ":">>),
        L(4, <<"if", " ", "1", ":">>),
        L(8, <<"t", " ", "=", " ", "2">>)>> }

\* function name(first, b): print(first), print(b); then the call
CallProgram(name, first, call) ==
    <<L(0, <<"function", " ", name, "(", first, ",", " ", "b", ")", ":">>),
      PrintLine(4, first),
      PrintLine(4, "b"),
      L(0, <<name, "(">> \o call \o <<")">>)>>

CallPrograms ==
    {CallProgram("f", first, call) :
        first \in {"x", "y"},
        call \in {<<"1", ",", " ", "2">>, <<"1">>, <<"1", ",", " ", "2", ",", " ", "3">>,
                  <<"5", ",", " ", "x">>, <<"x", " ", "+", " ", "1", ",", " ", "x">>,
                  <<"z">>, <<"z", ",", " ", "zz", " ", "+", " ", "1", ",", " ", "z">>}}

FunctionG ==
    <<L(0, <<"function", " ", "g", "(", ")", ":">>),
      L(4, <<"t", " ", "=", " ", "t", " ", "+", " ", "1">>)>>

DynPrograms ==
    { FunctionG \o
        <<L(0, <<"function", " ", "h", "(", ")", ":">>),
          L(4, <<"t", " ", "=", " ", "1">>),
          L(4, <<"g", "(", ")">>),
          PrintLine(4, "t"),
          L(0, <<"h", "(", ")">>)>>,
      FunctionG \o
        <<L(0, <<"loop", " ", "i", "=", "2", " ", "times", ":">>),
          L(4, <<"t", " ", "=", " ", "5">>),
          L(4, <<"g", "(", ")">>),
          PrintLine(4, "t")>>,
      <<L(0, <<"function", " ", "k", "(", ")", ":">>),
        L(4, <<"t", " ", "=", " ", "30">>),
        L(4, <<"function", " ", "g", "(", ")", ":">>),
        PrintLine(8, "t"),
        L(0, <<"k", "(", ")">>),
        L(0, <<"function", " ", "h", "(", ")", ":">>),
        L(4, <<"t", " ", "=", " ", "1">>),
        L(4, <<"g", "(", ")">>),
        L(0, <<"h", "(", ")">>)>> }

\* function f(a): the body; then f(1)
FunctionFA(body) ==
    <<L(0, <<"function", " ", "f", "(", "a", ")", ":">>)>> \o
        [i \in 1..Len(body) |-> L(4, body[i])] \o
        <<L(0, <<"f", "(", "1", ")">>)>>

ReturnPrograms ==
    { FunctionFA(<< <<"print", "(", "a", ")">>,
                    <<"return", " ", "a", " ", "+", " ", "1">>,
                    <<"print", "(", "3", ")">> >>),
      FunctionFA(<< <<"return", " ", "1">>, <<"return", " ", "2">> >>),
      FunctionFA(<< <<"print", "(", "a", ")">> >>),
      FunctionFA(<< <<"t", " ", "=", " ", "a">>, <<"print", "(", "t", ")">>,
                    <<"return", " ", "t">> >>),
      FunctionFA(<< <<"return", " ", "zz", " ", "+", " ", "1">>,
                    <<"print", "(", "3", ")">> >>) }

NestedReturnPrograms ==
    { FunctionF(<< <<"if", " ", "1", ":">> >>) \o
        <<L(8, <<"return", " ", "5">>), PrintLine(8, "1"), PrintLine(4, "2"),
          CallF>>,
      FunctionF(<< <<"loop", " ", "i", "=", "2", " ", "times", ":">> >>) \o
        <<L(8, <<"return", " ", "zz">>), PrintLine(8, "i"), PrintLine(4, "3"),
          L(4, <<"return", " ", "4">>), CallF>>,
      FunctionF(<< <<"loop", " ", "while", " ", "x", " ", "<", " ", "3", ":">> >>) \o
        <<L(8, <<"return", " ", "5">>),
          L(8, <<"x", " ", "=", " ", "x", " ", "+", " ", "1">>),
          PrintLine(4, "2"), CallF>>,
      <<L(0, <<"if", " ", "1", ":">>), L(4, <<"return", " ", "5">>),
        PrintLine(4, "1"), PrintLine(0, "2")>> }

\* s = 1 + 1, an assignment to the given left side, u = 1 + 1
StoreProgram(left, right) ==
    <<L(0, <<"s", " ", "=", " ", "1", " ", "+", " ", "1">>),
      L(0, left \o <<" ", "=", " ">> \o right),
      L(0, <<"u", " ", "=", " ", "1", " ", "+", " ", "1">>)>>

StorePrograms ==
    { StoreProgram(<<"t">>, <<"3">>),
      StoreProgram(<<"board", "[", "0", "]", "[", "1", "]">>, <<"3">>),
      StoreProgram(<<"loop", " ", "i">>, <<"5", " ", "times", ":">>) }

\* lines that begin with the keyword of an opener and miss its pattern
FailedOpeners ==
    { <<"loop", " ", "5", " ", "times", ":">>,
      <<"loop", " ", "i", " ", "=", " ", "5", " ", "times", ":">>,
      <<"loop", "(", "5", ")">>,
      <<"loop", " ", "while", " ", "x">>,
      <<"if", " ", "x">>,
      <<"if", " ", "x", " ", "=", " ", "1">>,
      <<"function", " ", "f", ":">>,
      <<"function", "(", "x", ")">> }

\* such a line with deeper records below it, at the top level and in the
\* body of a function that is called once
FailedOpenerPrograms ==
    {<<L(0, opener), PrintLine(4, "3"), PrintLine(8, "4")>> :
        opener \in FailedOpeners}
    \cup
    {<<L(0, <<"function", " ", "g", "(", ")", ":">>), L(4, opener),
       PrintLine(8, "3"), PrintLine(6, "4"), L(0, <<"g", "(", ")">>)>> :
        opener \in FailedOpeners}

NodePrograms ==
    FailedOpenerPrograms \cup StorePrograms \cup CanvasPrograms
        \cup DeclPrograms \cup LoopPrograms \cup WhilePrograms
        \cup IfPrograms \cup CallPrograms \cup DynPrograms
        \cup ReturnPrograms \cup NestedReturnPrograms

NodeInputs ==
    {in \in [lines : NodePrograms, scope : 1..MaxDepth, chain : Chains] :
        in.scope <= Len(in.chain)}

\* the world of one context whose scopes are the chain
NodeWorld(scopes) ==
    [ctxs |-> <<[NewContext EXCEPT !.scopes = scopes]>>, ref |-> 0,
     errors |-> <<>>, drawn |-> <<>>, canvasSize |-> <<Num(500), Num(500)>>,
     raf |-> <<>>, log |-> <<>>]

InitNode ==
    /\ Mounted
    /\ code = <<>>
    /\ budget = 1
    /\ arg \in NodeInputs
    /\ res = <<>>

CallNode ==
    /\ budget = 1
    /\ budget' = 0
    /\ res' = ExecList(Counted(parse(arg.lines)),
                       NodeWorld(ChainOf(arg.chain)), 1, arg.scope)
    /\ UNCHANGED <<code, ctxs, contextRef, errors, drawn, canvasSize, rafNow,
                   rafNext, log, stopped, arg>>

SpecNode == InitNode /\ [][CallNode]_vars

(***************************************************************************)
(* SpecFrames: the Project page with a program whose run() leaves          *)
(* something behind from frame to frame. SpecKeys: the page with a program *)
(* that asks for keys, and a keyboard.                                     *)
(***************************************************************************)
\* g = 0; function run(): t = g; g = 1 - g
ScopeProgram == <<
    L(0, <<"g", " ", "=", " ", "0">>),
    L(0, <<"function", " ", "run", "(", ")", ":">>),
    L(4, <<"t", " ", "=", " ", "g">>),
    L(4, <<"g", " ", "=", " ", "1", " ", "-", " ", "g">>) >>

\* function run(): print(keyDown("a")); print(keyDown("b"))
KeyProgram == <<
    L(0, <<"function", " ", "run", "(", ")", ":">>),
    L(4, <<"print", "(", "keyDown", "(", "\"a\"", ")", ")">>),
    L(4, <<"print", "(", "keyDown", "(", "\"b\"", ")", ")">>) >>

\* color(255,0,0); function run(): circle(1,1,1); color(0,0,255)
PaintProgram == <<
    L(0, <<"color", "(", "255", ",", "0", ",", "0", ")">>),
    L(0, <<"function", " ", "run", "(", ")", ":">>),
    L(4, <<"circle", "(", "1", ",", "1", ",", "1", ")">>),
    L(4, <<"color", "(", "0", ",", "0", ",", "255", ")">>) >>

FramePrograms == {ScopeProgram, PaintProgram}

InitFrames == ProjectInit /\ code \in FramePrograms /\ budget = MaxRuns

NextFrames ==
    \/ RunCode
    \/ StopCode
    \/ BeginFrame
    \/ LoopCallback
    \/ PollCallback

SpecFrames == InitFrames /\ [][NextFrames]_vars

InitKeys == ProjectInit /\ code = KeyProgram /\ budget = MaxRuns

NextKeys ==
    \/ RunCode
    \/ StopCode
    \/ BeginFrame
    \/ LoopCallback
    \/ PollCallback
    \/ KeyDown
    \/ KeyUp

SpecKeys == InitKeys /\ [][NextKeys]_vars

(***************************************************************************)
(* SpecInterp: Run pressed once on a script: some function declarations,   *)
(* then up to MaxStatements statements. No script assigns z.               *)
(***************************************************************************)
Declarations ==
    { <<>>,
      <<L(0, <<"function", " ", "f", "(", "a", ")", ":">>),
        L(4, <<"print", "(", "a", ")">>)>>,
      <<L(0, <<"function", " ", "g", "(", ")", ":">>),
        L(4, <<"print", "(", "1", ")">>)>> }

Statements ==
    { <<L(0, <<"x", " ", "=", " ", "0">>)>>,
      <<L(0, <<"y", " ", "=", " ", "z">>)>>,
      <<L(0, <<"y", " ", "=", " ", "z", " ", "+", " ", "1">>)>>,
      <<L(0, <<"circle", "(", "z", ",", " ", "1", ",", " ", "1", ")">>)>>,
      <<L(0, <<"print", "(", "z", ")">>)>>,
      <<L(0, <<"print", "(", "x", ")">>)>>,
      <<L(0, <<"f", "(", "z", ")">>)>>,
      <<L(0, <<"g", "(", "z", ")">>)>>,
      <<L(0, <<"loop", " ", "i", "=", "5", " ", "times", ":">>),
        L(4, <<"print", "(", "i", ")">>)>>,
      <<L(0, <<"loop", " ", "i", "=", "3", " ", "times", ":">>),
        L(4, <<"x", "=", "x", "+", "1">>)>> }

\* the scripts of at most n statements
RECURSIVE Bodies(_)
Bodies(n) ==
    IF n = 0 THEN {<<>>}
    ELSE Bodies(n - 1) \cup {b \o st : b \in Bodies(n - 1), st \in Statements}

Scripts == {d \o b : d \in Declarations, b \in Bodies(MaxStatements) \ {<<>>}}

InitInterp ==
    /\ Mounted
    /\ code \in Scripts
    /\ budget = 1
    /\ arg = <<>>
    /\ res = <<>>

SpecInterp == InitInterp /\ [][RunCode]_vars

(***************************************************************************)
(* SpecExpr: Run pressed once on a script of assignments whose right sides *)
(* call functions and build and index arrays, after an optional            *)
(* declaration of f with a direct return statement.                        *)
(***************************************************************************)
ExprDeclarations ==
    { <<>>,
      <<L(0, <<"function", " ", "f", "(", "a", ")", ":">>),
        L(4, <<"return", " ", "a", " ", "+", " ", "1">>)>>,
      <<L(0, <<"function", " ", "f", "(", "a", ")", ":">>),
        L(4, <<"b", " ", "=", " ", "a">>),
        L(4, <<"return", " ", "b", " ", "*", " ", "3">>)>> }

\* a = [[0,0],[0,0]]
GridInit ==
    <<"a", " ", "=", " ", "[", "[", "0", ",", "0", "]", ",",
      "[", "0", ",", "0", "]", "]">>

\* a[1][0] = 5
GridStore == <<"a", "[", "1", "]", "[", "0", "]", " ", "=", " ", "5">>

\* y = name(arg), y = name() when arg is ""
CallLine(name, a) ==
    IF a = "" THEN <<"y", " ", "=", " ", name, "(", ")">>
    ELSE <<"y", " ", "=", " ", name, "(", a, ")">>

ExprLines ==
    { <<"x", " ", "=", " ", "3">>,
      CallLine("f", "x"), CallLine("f", "1"),
      CallLine("floor", "x"), CallLine("abs", "x"), CallLine("random", ""),
      CallLine("sin", "0"), CallLine("cos", "0"), CallLine("keyDown", "x"),
      GridInit, GridStore,
      <<"y", " ", "=", " ", "a", "[", "1", "]", "[", "0", "]">> }

\* the sequences of at most n of the lines
RECURSIVE ExprBodies(_)
ExprBodies(n) ==
    IF n = 0 THEN {<<>>}
    ELSE ExprBodies(n - 1) \cup
             {Append(b, l) : b \in ExprBodies(n - 1), l \in ExprLines}

ExprScripts ==
    {d \o AtTop(b) : d \in ExprDeclarations,
                     b \in ExprBodies(MaxStatements) \ {<<>>}}

InitExpr ==
    /\ Mounted
    /\ code \in ExprScripts
    /\ budget = 1
    /\ arg = <<>>
    /\ res = <<>>

SpecExpr == InitExpr /\ [][RunCode]_vars

(***************************************************************************)
(* SpecColor: Run pressed once on a script of color and popColor calls,    *)
(* either at the top level, where the color stack is the empty one of the  *)
(* new context, or as the body of run(), where it is the one startProgram  *)
(* seeded and every frame continues with the stack the frame before left.  *)
(***************************************************************************)
ColorLines ==
    { <<"color", "(", "255", ",", "0", ",", "0", ")">>,
      <<"color", "(", "0", ",", "0", ",", "255", ")">>,
      <<"popColor", "(", ")">> }

\* color(255,0,0); circle(1,1,1); popColor(); circle(2,2,2)
PaletteLines ==
    << <<"color", "(", "255", ",", "0", ",", "0", ")">>,
       <<"circle", "(", "1", ",", "1", ",", "1", ")">>,
       <<"popColor", "(", ")">>,
       <<"circle", "(", "2", ",", "2", ",", "2", ")">> >>

\* circle(1,1,1); color(255,0,0); rectangle(2,2,2,2)
DrawFirstLines ==
    << <<"circle", "(", "1", ",", "1", ",", "1", ")">>,
       <<"color", "(", "255", ",", "0", ",", "0", ")">>,
       <<"rectangle", "(", "2", ",", "2", ",", "2", ",", "2", ")">> >>

\* the sequences of at most n color lines
RECURSIVE ColorBodies(_)
ColorBodies(n) ==
    IF n = 0 THEN {<<>>}
    ELSE ColorBodies(n - 1) \cup
             {Append(b, l) : b \in ColorBodies(n - 1), l \in ColorLines}

ColorScripts ==
    LET bodies == (ColorBodies(MaxColorCalls) \ {<<>>})
                      \cup {PaletteLines, DrawFirstLines}
    IN {AtTop(b) : b \in bodies} \cup {InRun(b) : b \in bodies}

InitColor ==
    /\ Mounted
    /\ code \in ColorScripts
    /\ budget = 1
    /\ arg = <<>>
    /\ res = <<>>

SpecColor == InitColor /\ [][NextBall]_vars

(***************************************************************************)
(* Reading the ghost log of the last handler.                              *)
(***************************************************************************)
\* the positions of the log that hold an event of kind e
At(e) == {i \in DOMAIN log : log[i].e = e}

\* the same of the log the step leaves
AtNext(e) == {i \in DOMAIN log' : log'[i].e = e}

\* the payloads of the events of kind e at or after position from, in order
RECURSIVE PayloadsFrom(_, _, _)
PayloadsFrom(lg, e, from) ==
    IF from > Len(lg) THEN <<>>
    ELSE IF lg[from].e = e THEN <<lg[from].d>> \o PayloadsFrom(lg, e, from + 1)
    ELSE PayloadsFrom(lg, e, from + 1)

\* the frame loop ran in the last handler and found running = TRUE
Ticked == \E i \in At("tick") : log[i].d

TickedNext == \E i \in AtNext("tick") : log'[i].d

(***************************************************************************)
(* C1: for the ball program, after every frame tick the drawing buffer     *)
(* holds exactly one circle command; its centre x is 0 in the first frame, *)
(* 2 larger in each following frame, and 0 again in the frame after the    *)
(* tick in which x exceeded 500.                                           *)
(***************************************************************************)
BallCircle(cx) ==
    [cmd |-> "circle", args |-> <<Num(cx), Num(300), Num(30)>>,
     color |-> DefaultColor]

BallX == ctxs[1].drawingCommands[1].args[1].v

C1_OneCircle ==
    ctxs # <<>> => \E cx \in 0..500 : ctxs[1].drawingCommands = <<BallCircle(cx)>>

C1_FrameStep ==
    TickedNext =>
        IF ctxs = <<>> THEN BallX' = 0
        ELSE BallX' = IF BallX + 2 > 500 THEN 0 ELSE BallX + 2

\* C1: one circle after every tick, at 0, 2, 4, ..., 500, 0, ...
C1_BallFrames == []C1_OneCircle /\ [][C1_FrameStep]_vars

\* a callback tick has just drawn the ball back at 0: x had exceeded 500
C1_Wrapped ==
    /\ ctxs # <<>>
    /\ log[1].e = "callback"
    /\ Ticked
    /\ BallX = 0

(***************************************************************************)
(* C5: each frame tick that finds running = TRUE first empties the drawing *)
(* buffer and then invokes run() exactly once; at the end of the tick the  *)
(* buffer is exactly the circle/rectangle calls executed during that tick, *)
(* in order, with nothing carried over from earlier frames or from the     *)
(* top-level pass.                                                         *)
(***************************************************************************)
\* the entries of run() in the log after position i
RunEntries(i) == {j \in At("enter") : j > i /\ log[j].d = "run"}

\* C5: after a tick the buffer is what that tick drew, run() entered once
C5_TickReplacesBuffer ==
    \A i \in At("tick") :
        log[i].d =>
            /\ i < Len(log)
            /\ log[i + 1].e = "clear"
            /\ RunEntries(i) = {i + 2}
            /\ ctxs[log[i].c].drawingCommands = PayloadsFrom(log, "draw", i)

\* Run of a program that draws at top level: the first tick dropped that
C5_TopLevelDropped ==
    /\ log # <<>>
    /\ log[1].e = "runCode"
    /\ \E i \in At("tick") :
           /\ log[i].d
           /\ \E j \in At("draw") : j < i
           /\ Len(ctxs[log[i].c].drawingCommands) = 2

(***************************************************************************)
(* C6: the running flag is read only at the top of a tick. A tick in which *)
(* the flag of its context is cleared still executes the remaining         *)
(* statements of run() and schedules the next tick; every tick that starts *)
(* with the flag cleared returns without clearing the buffer, invoking     *)
(* run() or scheduling a tick; and a cleared flag of a started context is  *)
(* never set again.                                                        *)
(***************************************************************************)
\* the records of the statements directly in run()'s body, in order
RunBody(c) ==
    [k \in DOMAIN ctxs'[c].functions["run"].body |->
        ctxs'[c].functions["run"].body[k].at]

\* the statements the step executed after log position i that lie directly
\* in run()'s body
RECURSIVE DirectFrom(_, _, _)
DirectFrom(lg, ats, from) ==
    IF from > Len(lg) THEN <<>>
    ELSE IF lg[from].e = "stmt" /\ (\E k \in DOMAIN ats : ats[k] = lg[from].d)
    THEN <<lg[from].d>> \o DirectFrom(lg, ats, from + 1)
    ELSE DirectFrom(lg, ats, from + 1)

\* a frame callback of a context whose flag is cleared does nothing
C6_StoppedTickReturns ==
    (rafNow # <<>> /\ Head(rafNow)[1] = "loop"
        /\ ~ctxs[Head(rafNow)[2]].running) =>
            /\ ctxs' = ctxs
            /\ rafNext' = rafNext
            /\ AtNext("clear") = {}
            /\ AtNext("enter") = {}
            /\ AtNext("stmt") = {}

\* a tick that started runs every statement of run() and schedules the next
C6_TickFinishes ==
    \A i \in AtNext("tick") :
        log'[i].d =>
            /\ DirectFrom(log', RunBody(log'[i].c), i) = RunBody(log'[i].c)
            /\ \E k \in DOMAIN rafNext' : rafNext'[k] = <<"loop", log'[i].c>>
            /\ \A j \in AtNext("tick") : j = i

\* the flag of a context that exists is never set
C6_NeverRestarted ==
    \A c \in DOMAIN ctxs : ~ctxs[c].running => ~ctxs'[c].running

\* C6: running is read at the top of a tick only
C6_CooperativeStop ==
    [][C6_StoppedTickReturns /\ C6_TickFinishes /\ C6_NeverRestarted]_vars

\* a callback tick whose own flag the error sink cleared went on to the
\* statement after the failing one
C6_HaltedMidTick ==
    /\ log # <<>>
    /\ log[1].e = "callback"
    /\ \E i \in At("tick"), j \in At("halt"), k \in At("stmt") :
           /\ log[i].d
           /\ i < j /\ j < k
           /\ log[j].c = log[i].c
           /\ ~ctxs[log[i].c].running

(***************************************************************************)
(* C7: after any sequence of Run and Stop at most one runtime context has  *)
(* an active frame loop; after a second Run only the newest context's      *)
(* run() is invoked and only its buffer is published.                      *)
(***************************************************************************)
Running == {c \in DOMAIN ctxs : ctxs[c].running}

\* C7: one running context at most, and only the newest ticks or publishes
C7_OneActiveLoop ==
    /\ Cardinality(Running) <= 1
    /\ \A i \in At("tick") : log[i].d => log[i].c = Len(ctxs)
    /\ \A i \in At("publish") : log[i].c = Len(ctxs)

(***************************************************************************)
(* C8: after Stop, no context created by any earlier Run invokes run() or  *)
(* publishes drawing commands on a later frame until Run is pressed again. *)
(***************************************************************************)
\* C8: while stopped, no tick finds its flag set and nothing is published
C8_StopSilencesAll ==
    stopped =>
        /\ \A i \in At("tick") : ~log[i].d
        /\ At("publish") = {}

(***************************************************************************)
(* C9: if no function named run is registered when startProgram is called, *)
(* exactly one diagnostic is reported, running is never set, and no tick   *)
(* executes: the buffer is never cleared, the driver invokes no function.  *)
(***************************************************************************)
NoRun(c) == "run" \notin DOMAIN ctxs[c].functions

\* the diagnostics of the log that say run() is missing
MissingRun == {i \in At("error") : log[i].d.msg = "No run() function found"}

\* C9: a context without run() never runs, never ticks; Run reports it once
C9_MissingEntryPoint ==
    /\ \A c \in DOMAIN ctxs :
           NoRun(c) =>
               /\ ~ctxs[c].running
               /\ \A k \in DOMAIN rafNow : rafNow[k][2] # c
               /\ \A k \in DOMAIN rafNext : rafNext[k][2] # c
    /\ \A i \in At("tick") \cup At("clear") \cup At("enter") : ~NoRun(log[i].c)
    /\ (log # <<>> /\ log[1].e = "runCode") =>
           IF NoRun(log[1].c)
           THEN /\ Cardinality(MissingRun) = 1
                /\ errors # <<>>
                /\ errors[Len(errors)].msg = "No run() function found"
           ELSE MissingRun = {}

\* Run has just been pressed on a program that declares no run()
C9_RanWithoutRun ==
    /\ log # <<>>
    /\ log[1].e = "runCode"
    /\ NoRun(log[1].c)
    /\ Len(errors) = 1

(***************************************************************************)
(* C3: setVar(name, value, scope): if some scope on the chain from scope   *)
(* to the root already owns name, the nearest such owner's binding is      *)
(* overwritten and no other scope changes; otherwise name is created in    *)
(* scope itself and no ancestor changes.                                   *)
(***************************************************************************)
\* the scopes on the chain from s to the root
RECURSIVE ChainFrom(_, _)
ChainFrom(scopes, s) ==
    IF s = 0 THEN {} ELSE {s} \cup ChainFrom(scopes, scopes[s].parent)

\* the scopes on the chain of the call that own the name
Owners ==
    {t \in ChainFrom(arg.scopes, arg.scope) : arg.name \in DOMAIN arg.scopes[t].vars}

\* where the write must land: the owner every other owner lies above
Target ==
    IF Owners = {} THEN arg.scope
    ELSE CHOOSE t \in Owners : Owners \subseteq ChainFrom(arg.scopes, t)

\* C3: the write lands in the nearest owner, else in scope; nothing else moves
C3_SetVarFrame ==
    budget = 0 =>
        /\ DOMAIN res = DOMAIN arg.scopes
        /\ \A u \in DOMAIN res : u # Target => res[u] = arg.scopes[u]
        /\ res[Target].parent = arg.scopes[Target].parent
        /\ DOMAIN res[Target].vars =
               DOMAIN arg.scopes[Target].vars \cup {arg.name}
        /\ res[Target].vars[arg.name] = arg.value
        /\ \A n \in DOMAIN arg.scopes[Target].vars \ {arg.name} :
               res[Target].vars[n] = arg.scopes[Target].vars[n]

\* setVar has written a name that only a scope above the starting one owned
C3_WroteAncestor ==
    /\ budget = 0
    /\ arg \in SetVarInputs
    /\ Owners # {}
    /\ Target # arg.scope
    /\ res[Target].vars[arg.name] = Num(1)
    /\ arg.name \notin DOMAIN res[arg.scope].vars

(***************************************************************************)
(* C4: for every record sequence, a record following a successfully parsed *)
(* opener (function/loop/if) at indent O is placed in that opener's body   *)
(* iff its indent is > O and every record between it and the opener also   *)
(* had indent > O; the first record with indent <= O ends the block and is *)
(* parsed as a sibling or ancestor-level statement.                        *)
(***************************************************************************)
\* the statement lists a node holds
Kids(node) ==
    IF node.type = "IfStatement" THEN node.consequent \o node.alternate
    ELSE IF "body" \in DOMAIN node THEN node.body
    ELSE <<>>

\* every node of a block, the nested ones included
RECURSIVE AllNodes(_)
AllNodes(block) ==
    UNION {{block[i]} \cup AllNodes(Kids(block[i])) : i \in DOMAIN block}

RecordsOf(block) == {m.at : m \in AllNodes(block)}

Openers ==
    {n \in AllNodes(res) :
        n.type \in {"FunctionDeclaration", "LoopFor", "LoopWhile", "IfStatement"}}

\* the opener's body: the consequent of an if
BodyOf(n) == IF n.type = "IfStatement" THEN n.consequent ELSE n.body

\* every statement list of the tree
Blocks ==
    {res} \cup {BodyOf(n) : n \in Openers}
          \cup {n.alternate : n \in {m \in Openers : m.type = "IfStatement"}}

\* the records p+1..r are all deeper than record p
Deeper(p, r) == \A q \in (p + 1)..r : code[q].indent > code[p].indent

\* r is the first record after p that is not deeper than p
Ends(p, r) ==
    /\ r \in (p + 1)..Len(code)
    /\ Deeper(p, r - 1)
    /\ code[r].indent <= code[p].indent

\* record r is a statement of the opener's own block or of a block around it
SiblingOrAbove(n, r) ==
    \E b \in Blocks :
        /\ \E i \in DOMAIN b : b[i].at = r
        /\ n.at \in RecordsOf(b)
        /\ r \notin RecordsOf(<<n>>)

\* record r is an else: marker at the indent of the if x, whose consequent
\* it ends
ConsumedBy(x, r) ==
    /\ x.type = "IfStatement"
    /\ Ends(x.at, r)
    /\ IsElseMarker(code[r].value)
    /\ code[r].indent = code[x.at].indent

Consumed(r) == \E x \in Openers : ConsumedBy(x, r)

\* the records a block takes up: its statements' and the markers of its ifs
PlacedIn(block) ==
    RecordsOf(block) \cup
        {r \in DOMAIN code : \E x \in AllNodes(block) : ConsumedBy(x, r)}

\* the alternate of an if: what follows its consumed marker and is deeper
AlternateAfterMarker(x) ==
    IF \E e \in DOMAIN code : ConsumedBy(x, e)
    THEN LET e == CHOOSE q \in DOMAIN code : ConsumedBy(x, q)
         IN PlacedIn(x.alternate) =
                {r \in (e + 1)..Len(code) :
                    \A q \in (e + 1)..r : code[q].indent > code[x.at].indent}
    ELSE x.alternate = <<>>

InBodyIffDeeper(n) ==
    \A r \in (n.at + 1)..Len(code) :
        r \in PlacedIn(BodyOf(n)) <=> Deeper(n.at, r)

\* C4: a record is in a block iff deeper than its opener, and whatever
\* ends a block is a statement beside or above the opener
C4_BlockByIndent ==
    budget = 0 =>
        \A n \in Openers :
            /\ InBodyIffDeeper(n)
            /\ \A r \in DOMAIN code : Ends(n.at, r) => SiblingOrAbove(n, r)

\* C4 with the else: marker set apart: the marker an if consumes is no
\* statement, and the deeper records after it are the if's alternate
C4_BlockByIndentElse ==
    budget = 0 =>
        \A n \in Openers :
            /\ InBodyIffDeeper(n)
            /\ \A r \in DOMAIN code :
                   Ends(n.at, r) =>
                       IF Consumed(r) THEN r \notin RecordsOf(res)
                       ELSE SiblingOrAbove(n, r)
            /\ n.type = "IfStatement" => AlternateAfterMarker(n)

\* if / else: / a deeper call: the marker is gone, the call is the alternate
C4_ElseTaken ==
    /\ budget = 0
    /\ Len(code) = 3
    /\ Len(res) = 1
    /\ res[1].type = "IfStatement"
    /\ IsElseMarker(code[2].value)
    /\ res[1].consequent = <<>>
    /\ Len(res[1].alternate) = 1
    /\ res[1].alternate[1].at = 3

(***************************************************************************)
(* The top-level statements of a script in the log of its Run: statement   *)
(* p is the record p of indent 0; its segment of the log runs from its     *)
(* "stmt" event up to the next top-level statement's.                      *)
(***************************************************************************)
TopRecords == {p \in DOMAIN code : code[p].indent = 0}

TopEvents == {i \in At("stmt") : log[i].d \in TopRecords}

\* the log position where the segment that starts at i ends
SegmentEnd(i) ==
    IF \E j \in TopEvents : j > i
    THEN CHOOSE j \in TopEvents : j > i /\ \A k \in TopEvents : k > i => j <= k
    ELSE Len(log) + 1

Segment(i) == SubSeq(log, i, SegmentEnd(i) - 1)

\* every top-level statement was executed once, in the order of the script
AllExecuted ==
    /\ \A p \in TopRecords : Cardinality({i \in TopEvents : log[i].d = p}) = 1
    /\ \A i, j \in TopEvents : i < j => log[i].d < log[j].d

(***************************************************************************)
(* C2: a counted loop `loop v=E times:` executes its body exactly N times, *)
(* N the value of E, binding v to 0, 1, ..., N-1 in that order:            *)
(* `loop i=5 times: print(i)` prints 0,1,2,3,4 once each in order, and     *)
(* `x=0; loop i=3 times: x=x+1` leaves x equal to 3.                       *)
(***************************************************************************)
\* the count of the loop line at record p
LoopCount(p) == NumeralValue[MatchLoopFor(code[p].value).countExpr[1]]

\* the counted loops among the top-level statements executed
LoopEvents == {i \in TopEvents : MatchLoopFor(code[log[i].d].value).ok}

\* what print was called with during a segment
Printed(i) == PayloadsFrom(Segment(i), "print", 1)

\* how often the statement of record p ran during a segment
Passes(i, p) == Len(SelectSeq(Segment(i), LAMBDA ev : ev.e = "stmt" /\ ev.d = p))

\* C2: the body runs N times, v counting 0..N-1; x=0 and three x=x+1 give 3
C2_CountedLoop ==
    budget = 0 =>
        /\ \A i \in LoopEvents :
               /\ Passes(i, log[i].d + 1) = LoopCount(log[i].d)
               /\ code[log[i].d + 1].value = <<"print", "(", "i", ")">> =>
                      Printed(i) = [k \in 1..LoopCount(log[i].d) |->
                                       <<Num(k - 1)>>]
        /\ (Len(code) = 3 /\ code[1].value = <<"x", " ", "=", " ", "0">>
                /\ code[3].value = <<"x", "=", "x", "+", "1">>) =>
               ctxs[1].scopes[1].vars[<<"x">>] = Num(3)

(***************************************************************************)
(* C10: every statement that reads a name defined nowhere on its scope     *)
(* chain (as a bare identifier, inside a compound expression, or as an     *)
(* argument of a built-in or user-function call) causes exactly one call   *)
(* to the error sink for that read, and the statements after it in the     *)
(* same statement list are still executed.                                 *)
(***************************************************************************)
\* the calls of the error sink during a segment that are about z
ReadErrors(i) ==
    {j \in DOMAIN Segment(i) :
        /\ Segment(i)[j].e = "error"
        /\ Segment(i)[j].d.msg \in {"Variable not defined", "Failed to evaluate"}
        /\ HasToken(Segment(i)[j].d.what, "z")}

\* the top-level statements executed that read z, which no script defines
Readers == {i \in TopEvents : HasToken(code[log[i].d].value, "z")}

\* C10: one diagnostic per undefined read, and the script runs to its end
C10_OneDiagnosticPerRead ==
    budget = 0 =>
        /\ AllExecuted
        /\ \A i \in Readers : Cardinality(ReadErrors(i)) = 1

(***************************************************************************)
(* C11: when evaluating an expression of a statement fails (a diagnostic   *)
(* is reported, the result is undefined), the statement has no effect on   *)
(* runtime state: an Assignment leaves its target as it was and creates no *)
(* binding, a circle/rectangle call appends no drawing command; execution  *)
(* continues with the next statement.                                      *)
(***************************************************************************)
\* the world of a page on which Run was never pressed
FreshWorld ==
    [ctxs |-> <<>>, ref |-> 0, errors |-> <<>>, drawn |-> <<>>,
     canvasSize |-> <<Num(500), Num(500)>>, raf |-> <<>>, log |-> <<>>]

\* the script without its record p
Without(p) == SubSeq(code, 1, p - 1) \o SubSeq(code, p + 1, Len(code))

\* the context Run leaves for a script
ContextOf(script) == Collect(runCode(FreshWorld, script)).ctxs[1]

\* the statement of record p is an Assignment or a circle/rectangle call
AssignsOrDraws(p) ==
    LET Is(node) == \/ node.type = "Assignment"
                    \/ node.type = "Call" /\ node.callee \in {"circle", "rectangle"}
    IN Is(parseStatement(code, p).node)

\* the top-level statements executed whose expression failed to evaluate
FailedStatements ==
    {i \in TopEvents : AssignsOrDraws(log[i].d) /\ ReadErrors(i) # {}}

\* C11: a statement whose expression fails leaves the context as the script
\* without that statement leaves it, and the script runs to its end
C11_FailedStatementInert ==
    budget = 0 =>
        /\ AllExecuted
        /\ \A i \in FailedStatements : ctxs[1] = ContextOf(Without(log[i].d))

(***************************************************************************)
(* Reading the "stack" events of the log: what the program did to the      *)
(* color stack during the last handler.                                    *)
(***************************************************************************)
\* the last n entries of a sequence, all of them when it has fewer
LastN(seq, n) ==
    IF Len(seq) <= n THEN seq ELSE SubSeq(seq, Len(seq) - n + 1, Len(seq))

\* the colours of the color calls among the events i..j of the log, in order
RECURSIVE ColoursPushed(_, _)
ColoursPushed(i, j) ==
    IF i > j THEN <<>>
    ELSE IF log[i].e = "stack" /\ log[i].d.op = "color"
    THEN <<log[i].d.col>> \o ColoursPushed(i + 1, j)
    ELSE ColoursPushed(i + 1, j)

\* from event i to event j the program did nothing to the stack but push
PushRun(i, j) ==
    /\ i \in At("stack")
    /\ j \in At("stack")
    /\ i <= j
    /\ \A k \in At("stack") : i <= k /\ k <= j => log[k].d.op = "color"

\* up to event j of a Run, the program did nothing to the stack but push
OnlyPushedUntil(j) ==
    /\ log[1].e = "runCode"
    /\ j \in At("stack")
    /\ \A k \in At("stack") : k <= j /\ log[k].d.op # "init" => log[k].d.op = "color"
    /\ log[j].d.op = "color"

(***************************************************************************)
(* C12: color(r,g,b) puts the new colour on top of the stack and, if the   *)
(* stack then has more than 5 entries, removes entries from the bottom     *)
(* until 5 remain: after any sequence of n color calls the stack equals    *)
(* the last min(5, n) colours in push order, the newest on top.            *)
(***************************************************************************)
\* C12: after the program's first n operations on the stack, all of them
\* color calls, the stack is the last min(5, n) colours pushed
C12_LastFivePushed ==
    \A j \in DOMAIN log :
        OnlyPushedUntil(j) =>
            log[j].d.after = LastN(ColoursPushed(1, j), MaxColors)

\* C12 with the stack the calls start from: after n color calls the stack
\* is the last min(5, k + n) of the k entries before followed by the n colours
C12_LastFiveOfAll ==
    \A i, j \in DOMAIN log :
        PushRun(i, j) =>
            log[j].d.after =
                LastN(log[i].d.before \o ColoursPushed(i, j), MaxColors)

\* a color call on a full stack: the bottom entry went, the colour is on top
C12_Evicted ==
    \E j \in At("stack") :
        /\ log[j].d.op = "color"
        /\ Len(log[j].d.before) = MaxColors
        /\ log[j].d.after = Append(Tail(log[j].d.before), log[j].d.col)
        /\ ctxs[log[j].c].colorStack # <<>>

(***************************************************************************)
(* C13: after popColor() the color stack is never empty: popping a stack   *)
(* of zero or one entry leaves exactly the default colour; popping a stack *)
(* of k >= 2 entries leaves its bottom k-1 entries unchanged.              *)
(***************************************************************************)
Pops == {j \in At("stack") : log[j].d.op = "popColor"}

\* C13: popColor leaves the default alone on a stack of at most one entry,
\* the bottom k-1 entries of a larger one; never the empty stack
C13_PopNeverEmpties ==
    \A j \in Pops :
        /\ log[j].d.after # <<>>
        /\ Len(log[j].d.before) <= 1 => log[j].d.after = <<DefaultColor>>
        /\ Len(log[j].d.before) >= 2 =>
               log[j].d.after =
                   SubSeq(log[j].d.before, 1, Len(log[j].d.before) - 1)

\* popColor on the empty stack of a new context left the default colour,
\* and a later popColor took the top off a stack of two
C13_PoppedEmpty ==
    \E i, j \in Pops :
        /\ log[i].d.before = <<>>
        /\ log[i].d.after = <<DefaultColor>>
        /\ Len(log[j].d.before) = 2
        /\ log[j].d.after = <<log[j].d.before[1]>>

(***************************************************************************)
(* C14: color(255,0,0); circle(1,1,1); popColor(); circle(2,2,2), executed *)
(* from the color stack of a freshly constructed context, appends exactly  *)
(* two circle commands: the first red, the second the default colour.      *)
(***************************************************************************)
PaletteDrawn ==
    << [cmd |-> "circle", args |-> <<Num(1), Num(1), Num(1)>>,
        color |-> ColorString(Num(255), Num(0), Num(0))],
       [cmd |-> "circle", args |-> <<Num(2), Num(2), Num(2)>>,
        color |-> DefaultColor] >>

\* C14: the four statements leave two circles, the red one and the default
\* one, at the top level and as the body of run() alike
C14_RedThenDefault ==
    budget = 0 /\ code \in {AtTop(PaletteLines), InRun(PaletteLines)} =>
        ctxs[1].drawingCommands = PaletteDrawn

\* the four statements ran at the top level, on the stack of the new context
C14_PaletteRan ==
    /\ budget = 0
    /\ code = AtTop(PaletteLines)
    /\ log[1].e = "runCode"
    /\ \E j \in At("stack") : log[j].d.op = "color" /\ log[j].d.before = <<>>
    /\ ctxs[1].drawingCommands = PaletteDrawn

(***************************************************************************)
(* Reading a script of SpecExpr after its Run: the last statement, the     *)
(* globals it left, and the globals the script without it leaves.          *)
(***************************************************************************)
Globals == ctxs[1].scopes[1].vars

LastLine == code[Len(code)].value

GlobalsBefore == ContextOf(SubSeq(code, 1, Len(code) - 1)).scopes[1].vars

\* the diagnostics of evalExpr's catch reported during the Run
EvalFailures == {i \in At("error") : log[i].d.msg = "Failed to evaluate"}

(***************************************************************************)
(* C15: an assignment whose left side is a bracket-index chain, a[1][0] =  *)
(* 5 after a = [[0,0],[0,0]], replaces only the addressed element: a[1][0] *)
(* reads 5, every other element is unchanged, and no variable other than a *)
(* is created or changed.                                                  *)
(***************************************************************************)
Row(x, y) == List(<<Num(x), Num(y)>>)

\* C15: the store changes a to [[0,0],[5,0]] and nothing else
C15_IndexedStore ==
    (/\ budget = 0
     /\ LastLine = GridStore
     /\ <<"a">> \in DOMAIN GlobalsBefore
     /\ GlobalsBefore[<<"a">>] = List(<<Row(0, 0), Row(0, 0)>>)) =>
        Globals = [GlobalsBefore EXCEPT
                      ![<<"a">>] = List(<<Row(0, 0), Row(5, 0)>>)]

(***************************************************************************)
(* C16: a user-defined function can be called inside an expression: for a  *)
(* registered f whose body holds `return E` directly, `y = f(a)` binds y   *)
(* to the value of E in f's invocation scope, with no evaluation failure.  *)
(***************************************************************************)
\* what the declared f returns for the argument n
Returned(n) ==
    IF code[2].value = <<"return", " ", "a", " ", "+", " ", "1">>
    THEN Num(n + 1) ELSE Num(n * 3)

Declared == "f" \in DOMAIN ctxs[1].functions

\* C16: with f declared, y = f(1) and (x being 3) y = f(x) bind y to what f
\* returns, and no evaluation fails
C16_CallInExpression ==
    (budget = 0 /\ Declared) =>
        /\ LastLine = CallLine("f", "1") =>
               /\ <<"y">> \in DOMAIN Globals
               /\ Globals[<<"y">>] = Returned(1)
               /\ EvalFailures = {}
        /\ (/\ LastLine = CallLine("f", "x")
            /\ <<"x">> \in DOMAIN GlobalsBefore
            /\ GlobalsBefore[<<"x">>] = Num(3)) =>
               /\ <<"y">> \in DOMAIN Globals
               /\ Globals[<<"y">>] = Returned(3)

(***************************************************************************)
(* C17: inside an expression each of keyDown, sin, cos, random, floor and  *)
(* abs is a bound callable: y = floor(x) and y = abs(x) bind y to the      *)
(* largest integer <= x and to the absolute value of x, and using any of   *)
(* the six names reports no failure to evaluate.                           *)
(***************************************************************************)
BuiltinNames == {"keyDown", "sin", "cos", "random", "floor", "abs"}

\* the last statement calls one of the names, on x bound to 3 if on x at all
CallsBuiltin(name) ==
    /\ LastLine \in {CallLine(name, "x"), CallLine(name, "0"), CallLine(name, "")}
    /\ HasToken(LastLine, "x") =>
           /\ <<"x">> \in DOMAIN GlobalsBefore
           /\ GlobalsBefore[<<"x">>] = Num(3)

\* the failures to evaluate that the last statement reported
LastFailures == {i \in EvalFailures : log[i].d.what = SubSeq(LastLine, 5, Len(LastLine))}

\* C17: a call of any of the six names evaluates; floor(3) and abs(3) are 3
C17_BuiltinsBound ==
    budget = 0 =>
        \A name \in BuiltinNames :
            CallsBuiltin(name) =>
                /\ LastFailures = {}
                /\ name \in {"floor", "abs"} =>
                       /\ <<"y">> \in DOMAIN Globals
                       /\ Globals[<<"y">>] = Num(3)

(***************************************************************************)
(* C18: parse terminates without raising for every sequence of records and *)
(* consumes each record exactly once: every record yields exactly one node *)
(* somewhere in the forest (an inert node when no form matches), except an *)
(* else marker consumed by its matching if, so (number of nodes) + (number *)
(* of matched else markers) = number of records.                           *)
(***************************************************************************)
\* the nodes of a block, the nested ones included, each counted where it is
RECURSIVE CountNodes(_)
CountNodes(block) ==
    IF block = <<>> THEN 0
    ELSE 1 + CountNodes(Kids(block[1])) + CountNodes(Tail(block))

\* the else: markers an if of the forest matches
MatchedMarkers == {r \in DOMAIN code : Consumed(r)}

\* no form of parseStatement matches the line
NoFormMatches(line) == line = <<"loop", " ", "x", ":">>

\* C18: parse returns; each record is one node or a matched marker, never
\* both; a line of no form is an Unknown node carrying the line
C18_EveryRecordOnce ==
    budget = 0 =>
        /\ CountNodes(res) + Cardinality(MatchedMarkers) = Len(code)
        /\ RecordsOf(res) = DOMAIN code \ MatchedMarkers
        /\ \A n \in AllNodes(res) :
               IF NoFormMatches(code[n.at].value)
               THEN n.type = "Unknown" /\ n.line = code[n.at].value
               ELSE n.type # "Unknown"

\* an if took its marker, and the line of no form after it became the one
\* Unknown node of its alternate
C18_UnknownKept ==
    /\ budget = 0
    /\ Len(code) = 3
    /\ MatchedMarkers = {2}
    /\ CountNodes(res) = 2
    /\ res[1].type = "IfStatement"
    /\ Len(res[1].alternate) = 1
    /\ res[1].alternate[1].type = "Unknown"

(***************************************************************************)
(* C20: an if's alternate is non-empty only when the record immediately    *)
(* following its consequent block is an else marker at exactly the if's    *)
(* indent, in which case that record is consumed and the following deeper  *)
(* records form the alternate; an else marker at any other indent leaves   *)
(* the alternate empty and is itself parsed as an inert node that executes *)
(* nothing.                                                                *)
(***************************************************************************)
Ifs == {x \in Openers : x.type = "IfStatement"}

\* record e is an else: marker that ends the consequent of x at an indent
\* other than that of x
StrayAfter(x, e) ==
    /\ Ends(x.at, e)
    /\ IsElseMarker(code[e].value)
    /\ code[e].indent # code[x.at].indent

\* record e became a Noop node
IsNoop(e) == \E n \in AllNodes(res) : n.at = e /\ n.type = "Noop"

\* executing the node in a new context changes nothing and reports nothing
Inert(n) ==
    LET Same(w, w1) == w1.ctxs = w.ctxs /\ w1.errors = w.errors /\ w1.raf = w.raf
    IN Same([FreshWorld EXCEPT !.ctxs = <<NewContext>>],
            executeNode(n, [FreshWorld EXCEPT !.ctxs = <<NewContext>>], 1, 1))

\* the alternate of x is there only after a marker at the indent of x, which
\* is then no statement, and is what follows that marker and is deeper
AlternateOnlyAfterMarker(x) ==
    /\ x.alternate # <<>> => \E e \in DOMAIN code : ConsumedBy(x, e)
    /\ \A e \in DOMAIN code : ConsumedBy(x, e) => e \notin RecordsOf(res)
    /\ AlternateAfterMarker(x)

\* C20: a marker at another indent leaves the alternate empty and is a Noop
C20_ElseAtSameIndent ==
    budget = 0 =>
        /\ \A x \in Ifs :
               /\ AlternateOnlyAfterMarker(x)
               /\ \A e \in DOMAIN code :
                      StrayAfter(x, e) => x.alternate = <<>> /\ IsNoop(e)
        /\ \A n \in AllNodes(res) : n.type = "Noop" => Inert(n)

\* C20 with the enclosing if: a marker at another indent leaves the
\* alternate empty, and is a Noop unless an if around x takes it
C20_ElseAtSameIndentOrOuter ==
    budget = 0 =>
        /\ \A x \in Ifs :
               /\ AlternateOnlyAfterMarker(x)
               /\ \A e \in DOMAIN code :
                      StrayAfter(x, e) =>
                          /\ x.alternate = <<>>
                          /\ IF Consumed(e) THEN e \notin RecordsOf(res)
                             ELSE IsNoop(e)
        /\ \A e \in DOMAIN code :
               IsElseMarker(code[e].value) /\ ~Consumed(e) => IsNoop(e)
        /\ \A n \in AllNodes(res) : n.type = "Noop" => Inert(n)

\* if at 0 / if at 4 / else: at 0: the marker is at another indent than the
\* inner if, whose alternate stays empty, and the outer if takes it
C20_OuterTookMarker ==
    /\ budget = 0
    /\ Len(code) = 3
    /\ Len(res) = 1
    /\ res[1].type = "IfStatement"
    /\ Len(res[1].consequent) = 1
    /\ res[1].consequent[1].type = "IfStatement"
    /\ StrayAfter(res[1].consequent[1], 3)
    /\ res[1].consequent[1].alternate = <<>>
    /\ ConsumedBy(res[1], 3)
    /\ 3 \notin RecordsOf(res)

(***************************************************************************)
(* C19: every diagnostic a run reports through its error sink clears that  *)
(* same run's running flag: a run that reports an error during its         *)
(* top-level pass or during any tick (the first, synchronous one included) *)
(* executes no tick after the one in which the error was reported, and the *)
(* flag of no other run's context is changed.                              *)
(***************************************************************************)
\* C19: when a handler returns, the context of every diagnostic it reported
\* is not running, and the sink cleared the flag of no other context
C19_ErrorHaltsOwnRun ==
    /\ \A i \in At("error") : ~ctxs[log[i].c].running
    /\ \A i \in At("halt") : log[i - 1].e = "error" /\ log[i - 1].c = log[i].c

(***************************************************************************)
(* The physical lines of an input of lex, read without lex: line k opens   *)
(* Opened(k) brackets more than it closes; a group that starts at line s   *)
(* ends at the first line up to which the lines from s on have closed all  *)
(* they opened, or with the input.                                         *)
(***************************************************************************)
Occurs(line, t) == Cardinality({c \in DOMAIN line : line[c] = t})

Opened(k) == Occurs(arg[k], "[") - Occurs(arg[k], "]")

RECURSIVE OpenedOver(_, _)
OpenedOver(s, e) == IF e < s THEN 0 ELSE OpenedOver(s, e - 1) + Opened(e)

GroupEnd(s) ==
    IF \E e \in s..Len(arg) : OpenedOver(s, e) <= 0
    THEN CHOOSE e \in s..Len(arg) :
             OpenedOver(s, e) <= 0 /\ \A d \in s..(e - 1) : OpenedOver(s, d) > 0
    ELSE Len(arg)

\* nothing but blanks, or a comment
BlankOrComment(k) ==
    \/ \A c \in DOMAIN arg[k] : arg[k][c] = " "
    \/ \E c \in DOMAIN arg[k] :
           arg[k][c] = "#" /\ \A b \in 1..(c - 1) : arg[k][b] = " "

\* the first lines of the groups from line k on, in order
RECURSIVE GroupStarts(_)
GroupStarts(k) ==
    IF k > Len(arg) THEN <<>>
    ELSE IF BlankOrComment(k) THEN GroupStarts(k + 1)
    ELSE <<k>> \o GroupStarts(GroupEnd(k) + 1)

\* the trimmed lines s..e joined with one blank between two of them
RECURSIVE Joined(_, _)
Joined(s, e) ==
    IF e = s THEN Trim(arg[s]) ELSE Joined(s, e - 1) \o <<" ">> \o Trim(arg[e])

\* the blanks line k begins with
Leading(k) ==
    Cardinality({c \in DOMAIN arg[k] : \A b \in 1..c : arg[k][b] = " "})

(***************************************************************************)
(* C21: a physical line that leaves the bracket depth > 0 opens a logical  *)
(* line; every following physical line is space-joined onto it and no      *)
(* record is emitted until the depth, counted over all the lines appended, *)
(* is 0 or below again; then exactly one record is emitted, whose indent   *)
(* is the leading-whitespace count of the first physical line.             *)
(***************************************************************************)
\* C21: one record per group, in order: the group's lines joined by blanks,
\* at the indent of the group's first line
C21_MergedByDepth ==
    budget = 0 =>
        /\ Len(res) = Len(GroupStarts(1))
        /\ \A g \in DOMAIN res :
               /\ res[g].indent = Leading(GroupStarts(1)[g])
               /\ res[g].value =
                      Trim(Joined(GroupStarts(1)[g], GroupEnd(GroupStarts(1)[g])))

\* " [1," and "]" became the one record "[1, ]" of indent 1
C21_TwoLinesMerged ==
    /\ budget = 0
    /\ arg = << <<" ", "[", "1", ",">>, <<"]">> >>
    /\ res = << [value |-> <<"[", "1", ",", " ", "]">>, indent |-> 1] >>

(***************************************************************************)
(* C22: the lexer loses no content: the records, in order, contain exactly *)
(* the trimmed text of every physical line except the blank and comment    *)
(* lines met at bracket depth 0 (those met while a bracket is open are     *)
(* kept inside the merged record), and a logical line still open at the    *)
(* end of the input is emitted as a final record.                          *)
(***************************************************************************)
\* line k lies inside a group, after its first line
InsideGroup(k) ==
    \E g \in DOMAIN GroupStarts(1) :
        GroupStarts(1)[g] < k /\ k <= GroupEnd(GroupStarts(1)[g])

Kept(k) == ~BlankOrComment(k) \/ InsideGroup(k)

NotBlank(t) == t # " "

\* what the lines from k on hold, the dropped ones and the blanks left out
RECURSIVE ContentFrom(_)
ContentFrom(k) ==
    IF k > Len(arg) THEN <<>>
    ELSE IF Kept(k) THEN SelectSeq(arg[k], NotBlank) \o ContentFrom(k + 1)
    ELSE ContentFrom(k + 1)

\* what the records from g on hold, the blanks left out
RECURSIVE RecordContentFrom(_)
RecordContentFrom(g) ==
    IF g > Len(res) THEN <<>>
    ELSE SelectSeq(res[g].value, NotBlank) \o RecordContentFrom(g + 1)

\* the last group is open when the input ends
OpenAtEnd ==
    /\ GroupStarts(1) # <<>>
    /\ \A e \in GroupStarts(1)[Len(GroupStarts(1))]..Len(arg) :
           OpenedOver(GroupStarts(1)[Len(GroupStarts(1))], e) > 0

\* C22: the records hold what the kept lines hold, in order, and a group
\* open at the end of the input is the last record
C22_NoContentLost ==
    budget = 0 =>
        /\ RecordContentFrom(1) = ContentFrom(1)
        /\ OpenAtEnd =>
               /\ res # <<>>
               /\ res[Len(res)].value =
                      Trim(Joined(GroupStarts(1)[Len(GroupStarts(1))], Len(arg)))

\* the blank line before "a = [" is gone, the comment after it is kept in
\* the record, which is emitted although its bracket never closes
C22_CommentKeptInside ==
    /\ budget = 0
    /\ arg = << <<>>, <<"a", " ", "=", " ", "[">>, <<" ", "#", " ", "[">> >>
    /\ res = << [value |-> <<"a", " ", "=", " ", "[", " ", "#", " ", "[">>,
                 indent |-> 0] >>

(***************************************************************************)
(* A list of nodes executed in a scope of a chain (SpecNode): the nodes,   *)
(* the scopes before and after, and what the log says was done.            *)
(***************************************************************************)
Nodes == Counted(parse(arg.lines))

\* the node built from record p
NodeOf(p) == CHOOSE n \in AllNodes(Nodes) : n.at = p

ScopesBefore == ChainOf(arg.chain)

ScopesAfter == res.ctxs[1].scopes

\* the positions of the log of the execution that hold an event of kind e
Did(e) == {j \in DOMAIN res.log : res.log[j].e = e}

\* the positions at which a node of the given type began to execute
Began(type) == {j \in Did("stmt") : NodeOf(res.log[j].d).type = type}

Prints == PayloadsFrom(res.log, "print", 1)

(***************************************************************************)
(* C23: executing a CanvasSize(w,h) node in any scope (top level, inside a *)
(* function body or a loop) sets the global scope's own CanvasSize binding *)
(* to [w,h] and changes no binding of the current scope or of any other    *)
(* non-global scope.                                                       *)
(***************************************************************************)
\* the last of the given positions of the log
Latest(S) == CHOOSE j \in S : \A k \in S : k <= j

DeclaredBefore(name, j) ==
    {k \in Began("FunctionDeclaration") :
        k < j /\ NodeOf(res.log[k].d).name = name}

\* the declaration of name executed last before position j
LastDeclared(name, j) == NodeOf(res.log[Latest(DeclaredBefore(name, j))].d)

\* C24: after a program of declarations and calls of functions that print,
\* every scope of the chain is as before and the scopes made on the way are
\* empty; the registry holds, for each name declared, the declaration
\* executed last; and the first statement a call executes is the first of
\* the body of the declaration of that name executed last before the call
C24_LastDeclarationWins ==
    budget = 0 /\ arg.lines \in DeclPrograms =>
        /\ \A s \in DOMAIN ScopesBefore : ScopesAfter[s] = ScopesBefore[s]
        /\ \A s \in (Len(ScopesBefore) + 1)..Len(ScopesAfter) :
               DOMAIN ScopesAfter[s].vars = {}
        /\ DOMAIN res.ctxs[1].functions =
              {NodeOf(res.log[k].d).name : k \in Began("FunctionDeclaration")}
        /\ \A name \in DOMAIN res.ctxs[1].functions :
               res.ctxs[1].functions[name] =
                   LastDeclared(name, Len(res.log) + 1)
        /\ \A j \in Did("bound") :
               /\ DeclaredBefore(res.log[j].d.name, j) # {}
               /\ j + 1 \in Did("stmt")
               /\ res.log[j + 1].d =
                      LastDeclared(res.log[j].d.name, j).body[1].at

\* f is declared at the top and again in the body of g: f() printed 1 before
\* g() ran and 2 after, in a scope that is not the global one
C24_RedeclaredInBody ==
    /\ budget = 0
    /\ arg.lines \in DeclPrograms
    /\ arg.scope = 2
    /\ Cardinality(Began("FunctionDeclaration")) = 3
    /\ Prints = << <<Num(1)>>, <<Num(2)>> >>

(***************************************************************************)
(* C25: a counted loop creates one child scope for the whole loop: a name  *)
(* first assigned in the body during iteration k (and owned by no          *)
(* ancestor) is readable with that value at the start of iteration k+1,    *)
(* and is not defined in the enclosing scope once the loop has finished.   *)
(***************************************************************************)
\* what name stands for in scope s: the binding of the nearest scope that
\* has one, undefined when none has
RECURSIVE Visible(_, _, _)
Visible(scopes, s, name) ==
    IF s = 0 THEN Undefined
    ELSE IF name \in DOMAIN scopes[s].vars THEN scopes[s].vars[name]
    ELSE Visible(scopes, scopes[s].parent, name)

\* what the body "print(t)", "t = value" assigns to t in iteration k
AssignedIn(k) ==
    IF arg.lines[3].value[5] = "i" THEN Num(k - 1)
    ELSE IF arg.lines[3].value[5] = "5" THEN Num(5)
    ELSE Visible(ScopesBefore, arg.scope, <<"x">>)

\* the number of passes the loop line asks for
Asked == NumeralValue[arg.lines[1].value[5]]

WhileLoops == {i \in Did("loop") : NodeOf(res.log[i].d.at).type = "LoopWhile"}

\* the positions at which the loop begun at i evaluated its condition
TestsOf(i) ==
    {j \in Did("cond") :
        res.log[j].d.at = res.log[i].d.at /\ res.log[j].d.scope = res.log[i].d.scope}

\* the positions at which the loop begun at i began a pass of its body
PassesOf(i) ==
    {k \in Did("stmt") :
        /\ res.log[k].d = NodeOf(res.log[i].d.at).body[1].at
        /\ i = Latest({h \in WhileLoops : h < k /\ res.log[h].d.at = res.log[i].d.at})}

\* what JavaScript takes for false, of the values a condition has here
Falsy(v) == v \in {Undefined, NaN, Num(0), Bool(FALSE)}

\* the diagnostics reported right before position j
RECURSIVE ErrorsUpTo(_)
ErrorsUpTo(j) ==
    IF j = 0 \/ res.log[j].e # "error" THEN 0 ELSE 1 + ErrorsUpTo(j - 1)

\* C26: every while loop has a scope of its own, a child of the scope the
\* loop is executed in, and evaluates its condition there, first right after
\* it began; a truthy result is followed by one pass of the body and another
\* evaluation (or the run is cut off), a falsy one by neither; a result is
\* undefined exactly when the evaluation reported one diagnostic; and a
\* loop that ended evaluated its condition once more than it passed
C26_TestBeforeEveryPass ==
    budget = 0 /\ arg.lines \in WhilePrograms =>
        /\ WhileLoops # {}
        /\ \A i \in WhileLoops :
            /\ res.log[i].d.scope > Len(ScopesBefore)
            /\ ScopesAfter[res.log[i].d.scope].parent = res.log[i].d.parent
            /\ \A h \in Did("loop") \ {i} : res.log[h].d.scope # res.log[i].d.scope
            /\ TestsOf(i) # {}
            /\ \A j \in TestsOf(i) :
                /\ j > i
                /\ ErrorsUpTo(j - 1) = IF res.log[j].d.v = Undefined THEN 1 ELSE 0
                /\ (\A h \in TestsOf(i) : h >= j) => j = i + 1 + ErrorsUpTo(j - 1)
                /\ Falsy(res.log[j].d.v) =>
                       \A h \in TestsOf(i) \cup PassesOf(i) : h <= j
                /\ ~Falsy(res.log[j].d.v) =>
                       \/ j + 1 \in Did("hang")
                       \/ /\ j + 1 \in PassesOf(i)
                          /\ \E h \in TestsOf(i) :
                                /\ h > j
                                /\ Cardinality({k \in PassesOf(i) : j < k /\ k < h}) = 1
                                /\ \A g \in TestsOf(i) : g <= j \/ g >= h
            /\ Falsy(res.log[Latest(TestsOf(i))].d.v) =>
                   Cardinality(TestsOf(i)) = Cardinality(PassesOf(i)) + 1

\* a loop passed once and ended at its second evaluation, which failed with
\* one diagnostic
C26_EndedByFailedTest ==
    /\ budget = 0
    /\ arg.lines \in WhilePrograms
    /\ \E i \in WhileLoops :
          /\ Cardinality(TestsOf(i)) = 2
          /\ Cardinality(PassesOf(i)) = 1
          /\ res.log[Latest(TestsOf(i))].d.v = Undefined
          /\ Len(res.errors) = 1

(***************************************************************************)
(* C27: an if statement evaluates its condition once in the current scope  *)
(* and executes exactly one of its two branch lists (the alternate,        *)
(* possibly empty, when the condition is falsy or fails to evaluate)       *)
(* directly in the current scope: a name first assigned inside a branch is *)
(* defined in the enclosing scope after the if.                            *)
(***************************************************************************)
\* the positions at which the if begun at i evaluated its condition
IfTestsOf(i) == {j \in Did("cond") : res.log[j].d.at = res.log[i].d}

\* how often the statements of a list began to execute after position j
Ran(list, j) ==
    [m \in DOMAIN list |->
        Cardinality({k \in Did("stmt") : k > j /\ res.log[k].d = list[m].at})]

\* C27: every if of a program of ifs and assignments, executed in a scope,
\* evaluates its condition once, at once and in that scope; then each
\* statement of one branch runs once and none of the other, the consequent
\* unless the result is falsy; no scope is made, the other scopes of the
\* chain stay as they are, and every name assigned is bound in the scope
C27_OneBranchInScope ==
    budget = 0 /\ arg.lines \in IfPrograms =>
        /\ Began("IfStatement") # {}
        /\ Len(ScopesAfter) = Len(ScopesBefore)
        /\ \A s \in DOMAIN ScopesBefore \ {arg.scope} :
               ScopesAfter[s] = ScopesBefore[s]
        /\ \A k \in Began("Assignment") :
               NodeOf(res.log[k].d).varName \in DOMAIN ScopesAfter[arg.scope].vars
        /\ \A i \in Began("IfStatement") :
            /\ Cardinality(IfTestsOf(i)) = 1
            /\ \A j \in IfTestsOf(i) :
                /\ res.log[j].d.scope = arg.scope
                /\ ErrorsUpTo(j - 1) = IF res.log[j].d.v = Undefined THEN 1 ELSE 0
                /\ j = i + 1 + ErrorsUpTo(j - 1)
                /\ Falsy(res.log[j].d.v) =>
                       /\ \A m \in DOMAIN NodeOf(res.log[i].d).alternate :
                              Ran(NodeOf(res.log[i].d).alternate, j)[m] = 1
                       /\ \A m \in DOMAIN NodeOf(res.log[i].d).consequent :
                              Ran(NodeOf(res.log[i].d).consequent, j)[m] = 0
                /\ ~Falsy(res.log[j].d.v) =>
                       /\ \A m \in DOMAIN NodeOf(res.log[i].d).consequent :
                              Ran(NodeOf(res.log[i].d).consequent, j)[m] = 1
                       /\ \A m \in DOMAIN NodeOf(res.log[i].d).alternate :
                              Ran(NodeOf(res.log[i].d).alternate, j)[m] = 0

\* the condition x failed in the second scope of a chain that binds no x:
\* the alternate ran, and its t = 2 is bound in that scope
C27_AlternateAfterFailure ==
    /\ budget = 0
    /\ arg.lines \in IfPrograms
    /\ arg.scope = 2
    /\ Len(res.errors) = 1
    /\ \E j \in Did("cond") : res.log[j].d.v = Undefined
    /\ <<"t">> \in DOMAIN ScopesAfter[2].vars
    /\ ScopesAfter[2].vars[<<"t">>] = Num(2)

(***************************************************************************)
(* Calls of declared functions: a "bound" event holds the scopes as they   *)
(* were when the call began and as they are when the body begins.          *)
(***************************************************************************)
\* the value of an expression in scope s of the given scopes
ValueIn(expr, scopes, s) == evalExpr(expr, NodeWorld(scopes), 1, s).v

\* the parameters of the function a "bound" event is about
ParamsOf(j) == res.ctxs[1].functions[res.log[j].d.name].args

\* what the call of a "bound" event passes for parameter i
PassedTo(j, i) ==
    IF i <= Len(res.log[j].d.args)
    THEN ValueIn(res.log[j].d.args[i], res.log[j].d.before, res.log[j].d.caller)
    ELSE Undefined

(***************************************************************************)
(* C28: executeFunction binds the declared parameters left to right to the *)
(* values of the corresponding argument expressions evaluated in the       *)
(* caller's scope, before any body statement runs; a parameter with no     *)
(* corresponding argument is bound to undefined and no diagnostic is       *)
(* reported for the arity mismatch, and surplus arguments are ignored.     *)
(***************************************************************************)
\* C28: when the body of a called function begins, each parameter stands
\* for the value its argument expression had in the caller's scope when the
\* call began, or for undefined when the call has no such argument; the
\* body, which prints the parameters, prints these values; and a call whose
\* arguments are numbers reports nothing
C28_ArgumentsByValue ==
    budget = 0 /\ arg.lines \in CallPrograms =>
        /\ Cardinality(Did("bound")) = 1
        /\ \A j \in Did("bound") :
            /\ \A i \in DOMAIN ParamsOf(j) :
                   Visible(res.log[j].d.after, res.log[j].d.scope, ParamsOf(j)[i])
                       = PassedTo(j, i)
            /\ Prints = [i \in DOMAIN ParamsOf(j) |-> <<PassedTo(j, i)>>]
            /\ (\A i \in DOMAIN res.log[j].d.args :
                    IsNumberText(res.log[j].d.args[i])) => res.errors = <<>>

(***************************************************************************)
(* C29: function parameters are local to the invocation's child scope:     *)
(* binding the parameters of a call f(...) never changes a variable owned  *)
(* by the caller's scope or any of its ancestors, even when such a         *)
(* variable has the same name as a parameter; after the call that variable *)
(* holds the value it had before, unless a body statement assigned to it.  *)
(***************************************************************************)
\* C29: when the body of a called function begins, every scope there was
\* when the call began is as it was and the new scope binds the parameters;
\* after a call of a function that only prints, the chain is as before
C29_ParametersLocal ==
    budget = 0 /\ arg.lines \in CallPrograms =>
        /\ \A j \in Did("bound") :
            /\ \A s \in DOMAIN res.log[j].d.before :
                   res.log[j].d.after[s] = res.log[j].d.before[s]
            /\ \A i \in DOMAIN ParamsOf(j) :
                   ParamsOf(j)[i] \in DOMAIN res.log[j].d.after[res.log[j].d.scope].vars
        /\ \A s \in DOMAIN ScopesBefore : ScopesAfter[s] = ScopesBefore[s]

(***************************************************************************)
(* C30: a function body resolves names through the scope chain of its      *)
(* caller at call time, not of the place where it was declared: a function *)
(* called from inside a loop body or another function can read, and by     *)
(* assignment overwrite, a variable that is local to that calling loop or  *)
(* function.                                                               *)
(***************************************************************************)
\* what the programs of DynPrograms print when the callee g reads, and adds
\* one to, the t of the function or loop that calls it
DynPrints ==
    IF arg.lines[1].value[3] = "k" THEN << <<Num(1)>> >>
    ELSE IF arg.lines[3].value[1] = "loop" THEN << <<Num(6)>>, <<Num(6)>> >>
    ELSE << <<Num(2)>> >>

BodyOfF == res.ctxs[1].functions["f"].body

\* the place of the first ReturnStatement in a list, 0 when it has none
FirstReturn(list) ==
    IF \E m \in DOMAIN list : list[m].type = "ReturnStatement"
    THEN CHOOSE m \in DOMAIN list :
             /\ list[m].type = "ReturnStatement"
             /\ \A h \in 1..(m - 1) : list[h].type # "ReturnStatement"
    ELSE 0

\* the statements of a list that run: those before its first ReturnStatement
RunOf(list) ==
    IF FirstReturn(list) = 0 THEN list
    ELSE SubSeq(list, 1, FirstReturn(list) - 1)

\* C31: the call f(1) of a function whose body is assignments, prints and
\* returns executes the statements before the first return, each once and
\* in order, and none after it; it returns the value the expression of that
\* return has in the scope of the invocation, undefined when there is none
C31_FirstDirectReturn ==
    budget = 0 /\ arg.lines \in ReturnPrograms =>
        /\ Cardinality(Did("return")) = 1
        /\ PayloadsFrom(res.log, "stmt", Latest(Did("bound"))) =
              [m \in DOMAIN RunOf(BodyOfF) |-> RunOf(BodyOfF)[m].at]
        /\ \A r \in Did("return") :
              /\ r = Len(res.log)
              /\ res.log[r].d.v =
                    IF FirstReturn(BodyOfF) = 0 THEN Undefined
                    ELSE ValueIn(BodyOfF[FirstReturn(BodyOfF)].expression,
                                 res.log[r].d.scopes, res.log[r].d.scope)

\* f(1) with the body print(a), return a + 1, print(3) printed 1 only and
\* returned 2
C31_ReturnedBeforeLast ==
    /\ budget = 0
    /\ arg.lines \in ReturnPrograms
    /\ Prints = << <<Num(1)>> >>
    /\ Len(BodyOfF) = 3
    /\ res.log[Len(res.log)].e = "return"
    /\ res.log[Len(res.log)].d.v = Num(2)

(***************************************************************************)
(* C32: a ReturnStatement reached inside a loop body or an if branch (i.e. *)
(* through the generic executor) changes no state and ends nothing: the    *)
(* remaining statements of that branch or loop pass, the remaining loop    *)
(* iterations, and the remaining statements of the enclosing function body *)
(* all still execute, and the function's result is not taken from that     *)
(* return.                                                                 *)
(***************************************************************************)
\* the records of the ReturnStatements that no function body holds directly
NestedReturns ==
    {n.at : n \in {m \in AllNodes(Nodes) : m.type = "ReturnStatement"}} \
        UNION {{n.body[m].at : m \in DOMAIN n.body} :
                  n \in {m \in AllNodes(Nodes) : m.type = "FunctionDeclaration"}}

\* the program with a line that is no statement in the place of each of them
Unreturned ==
    [p \in DOMAIN arg.lines |->
        IF p \in NestedReturns THEN L(arg.lines[p].indent, <<"nop">>)
        ELSE arg.lines[p]]

\* what executing that program leaves
UnreturnedRun ==
    ExecList(Counted(parse(Unreturned)), NodeWorld(ScopesBefore), 1, arg.scope)

RECURSIVE OwnersFrom(_, _, _)
OwnersFrom(scopes, s, name) ==
    IF s = 0 THEN {}
    ELSE (IF name \in DOMAIN scopes[s].vars THEN {s} ELSE {})
             \cup OwnersFrom(scopes, scopes[s].parent, name)

\* the names bound anywhere in the scopes
NamesIn(scopes) == UNION {DOMAIN scopes[s].vars : s \in DOMAIN scopes}

ReportsIn(expr, scopes, s) == evalExpr(expr, NodeWorld(scopes), 1, s).w.errors

\* what evaluating the first n arguments of the call of "bound" event j, in
\* order, reports in the caller's scope as it was when the call began
RECURSIVE PassReports(_, _)
PassReports(j, n) ==
    IF n = 0 THEN <<>>
    ELSE PassReports(j, n - 1) \o
             ReportsIn(res.log[j].d.args[n], res.log[j].d.before,
                       res.log[j].d.caller)

\* the smaller of two numbers
Least(a, b) == IF a < b THEN a ELSE b

\* C38: the diagnostics of a program that declares f with two parameters
\* and calls it once are those of one evaluation of all the arguments
\* followed by those of another of the arguments that have a parameter
C38_ArgumentsEvaluatedTwice ==
    budget = 0 /\ arg.lines \in CallPrograms =>
        \A j \in Did("bound") :
            res.errors =
                PassReports(j, Len(res.log[j].d.args)) \o
                PassReports(j, Least(Len(res.log[j].d.args), Len(ParamsOf(j))))

\* the call f(z), z being undefined, reported the same diagnostic twice
C38_TwoDiagnostics ==
    /\ budget = 0
    /\ arg.lines \in CallPrograms
    /\ \E j \in Did("bound") : res.log[j].d.args = << <<"z">> >>
    /\ Len(res.errors) = 2
    /\ res.errors[1] = res.errors[2]

(***************************************************************************)
(* C40: an Assignment only affects the binding it targets: an assignment   *)
(* whose left side is not a plain identifier (e.g. `board[0][1] = 3` or    *)
(* `loop i = 5 times:` parsed as an assignment) is stored under its raw    *)
(* left-side text as a variable name, and compound expressions that        *)
(* evaluated successfully before it, in a scope whose chain contains that  *)
(* binding, still evaluate to the same values after it without reporting a *)
(* failure.                                                                *)
(***************************************************************************)
\* the left side of the second line of a program of StorePrograms
StoredAs == Nodes[2].varName

\* C40: after s = 1 + 1, an assignment and u = 1 + 1, the left side of the
\* assignment is bound as it is written, u is what s is, and the second
\* evaluation of 1 + 1 reported nothing
C40_AssignmentFrame ==
    budget = 0 /\ arg.lines \in StorePrograms =>
        /\ Nodes[2].type = "Assignment"
        /\ StoredAs \in DOMAIN ScopesAfter[arg.scope].vars
        /\ Visible(ScopesAfter, arg.scope, <<"s">>) = Num(2)
        /\ Visible(ScopesAfter, arg.scope, <<"u">>) = Num(2)
        /\ \A j \in Did("error") :
               \E k \in Began("Assignment") : k < j /\ res.log[k].d = 2
                    /\ \A h \in Began("Assignment") : h <= k \/ h > j

(***************************************************************************)
(* C39: when a line that starts with an opener keyword (function, loop,    *)
(* if) does not match that opener's grammar, it yields a single non-block  *)
(* node (Unknown, or Assignment if the line contains '='), and its         *)
(* deeper-indented body records become members of the nearest enclosing    *)
(* successfully parsed block (or the top level), where they execute once   *)
(* unconditionally instead of being skipped or repeated.                   *)
(***************************************************************************)
\* the record of the program that holds the failed opener
OpenerRecord == CHOOSE p \in DOMAIN arg.lines : arg.lines[p].value \in FailedOpeners

OpenerLine == arg.lines[OpenerRecord].value

\* the records below the failed opener that are indented deeper than it
BodyRecords ==
    {p \in DOMAIN arg.lines :
        p > OpenerRecord /\ arg.lines[p].indent > arg.lines[OpenerRecord].indent}

\* the block the failed opener stands in: the body of g or the top level
Enclosing == IF OpenerRecord = 1 THEN Nodes ELSE NodeOf(1).body

\* the records the nodes of a block were built from
HeldBy(block) == {block[i].at : i \in DOMAIN block}

\* how many times the node built from record p began to execute
Times(p) == Cardinality({j \in Did("stmt") : res.log[j].d = p})

\* the line is a name, an opening parenthesis, and ends in a closing one
CallShaped(line) ==
    Len(line) >= 3 /\ IsWord(line[1]) /\ line[2] = "(" /\ line[Len(line)] = ")"

\* the node has no block, and the deeper records are nodes of the block
\* the opener is in, each executed once like the opener's node itself
BodyJoinsEnclosing ==
    /\ DOMAIN NodeOf(OpenerRecord) \cap {"body", "consequent", "alternate"} = {}
    /\ BodyRecords # {}
    /\ BodyRecords \cup {OpenerRecord} \subseteq HeldBy(Enclosing)
    /\ \A p \in BodyRecords \cup {OpenerRecord} : Times(p) = 1

\* C39 as stated: the node is an Assignment if the line holds "=" and an
\* Unknown otherwise, and the deeper records join the enclosing block
C39_UnknownOrAssignment ==
    budget = 0 /\ arg.lines \in FailedOpenerPrograms =>
        /\ NodeOf(OpenerRecord).type =
               IF HasToken(OpenerLine, "=") THEN "Assignment" ELSE "Unknown"
        /\ BodyJoinsEnclosing

\* C39 amended: the node is an Assignment if the line holds "=", else a
\* Call if the line is a name followed by a parenthesised rest, else an
\* Unknown; the deeper records join the enclosing block and execute once
C39_NonBlockNode ==
    budget = 0 /\ arg.lines \in FailedOpenerPrograms =>
        /\ NodeOf(OpenerRecord).type =
               IF HasToken(OpenerLine, "=") THEN "Assignment"
               ELSE IF CallShaped(OpenerLine) THEN "Call"
               ELSE "Unknown"
        /\ BodyJoinsEnclosing

\* in the body of g, loop(5) became a Call of loop, which is no function,
\* and the two records below it printed 3 and 4 once each
C39_CallNodeBodyRanOnce ==
    /\ budget = 0
    /\ arg.lines \in FailedOpenerPrograms
    /\ OpenerRecord = 2
    /\ OpenerLine = <<"loop", "(", "5", ")">>
    /\ NodeOf(2).type = "Call"
    /\ BodyJoinsEnclosing
    /\ Prints = << <<Num(3)>>, <<Num(4)>> >>
    /\ res.errors # <<>>

(***************************************************************************)
(* C34: in every state reachable after a runtime context is constructed by *)
(* Run, including during the top-level declaration pass that precedes the  *)
(* frame loop, the color stack holds at least 1 and at most 5 entries      *)
(* whenever a statement begins executing, so every circle/rectangle call   *)
(* finds a top-of-stack colour.                                            *)
(***************************************************************************)
\* the color stack of the context of event j of the last handler as the
\* event found it: what the next change of the stack started from, or what
\* the handler left if no change followed
StackWhen(j) ==
    LET later == {k \in At("stack") : k > j /\ log[k].c = log[j].c}
    IN IF later = {} THEN ctxs[log[j].c].colorStack
       ELSE log[CHOOSE k \in later : \A h \in later : k <= h].d.before

\* event j belongs to a tick: the frame loop was entered before it
InTick(j) == \E k \in At("tick") : k < j

\* C34 as stated: every statement begins on a stack of 1 to 5 entries
C34_OneToFiveAlways ==
    \A j \in At("stmt") :
        Len(StackWhen(j)) >= 1 /\ Len(StackWhen(j)) <= MaxColors

\* C34 amended: every statement begins on a stack of at most 5 entries, and
\* every statement of a tick on one of at least 1; a statement of the
\* top-level pass begins on the stack the pass has built from the empty one,
\* and a circle or rectangle that finds it empty takes the default colour
C34_AtMostFiveAndSeededInTicks ==
    /\ \A j \in At("stmt") :
           /\ Len(StackWhen(j)) <= MaxColors
           /\ InTick(j) => Len(StackWhen(j)) >= 1
    /\ \A j \in At("draw") :
           log[j].d.color = IF StackWhen(j) = <<>> THEN DefaultColor
                            ELSE StackWhen(j)[Len(StackWhen(j))]
    /\ \A j \in At("stmt") :
           (\A k \in At("stmt") \cup At("stack") : k >= j) /\ ~InTick(j)
               => StackWhen(j) = <<>>

\* a circle of the top-level pass began on the empty stack and took the
\* default colour
C34_DrawnOnEmptyStack ==
    \E j \in At("draw") :
        /\ ~InTick(j)
        /\ StackWhen(j) = <<>>
        /\ log[j].d.color = DefaultColor
        /\ \E k \in At("stmt") : k < j /\ StackWhen(k) = <<>>

(***************************************************************************)
(* C35: the pressed-key set of a run is changed only by key events:        *)
(* executing any statement or expression leaves it unchanged, and          *)
(* keyDown(k) evaluated during a tick is true iff, among the key events    *)
(* delivered since that run's startProgram and before the tick began, the  *)
(* most recent one for k is a key-down; key events arrive only between     *)
(* ticks, never inside one.                                                *)
(***************************************************************************)
\* the key events for key k delivered since startProgram of context c: the
\* events that reached c contexts or more
EventsFor(k, c) == {i \in DOMAIN arg : arg[i].key = k /\ arg[i].n >= c}

\* the most recent of them is a keydown
LastIsDown(k, c) ==
    /\ EventsFor(k, c) # {}
    /\ arg[Latest(EventsFor(k, c))].down

\* what the last handler printed
TickPrints == PayloadsFrom(log, "print", 1)

\* C35: the set of every context holds the keys whose most recent event
\* since its startProgram is a keydown, whatever has executed since, and a
\* tick of print(keyDown("a")); print(keyDown("b")) prints just that
C35_KeysFollowEvents ==
    /\ \A c \in DOMAIN ctxs :
           ctxs[c].keysDown = {k \in Keys : LastIsDown(k, c)}
    /\ code = KeyProgram =>
           \A j \in At("tick") :
               log[j].d =>
                   TickPrints = << <<Bool(LastIsDown("a", log[j].c))>>,
                                <<Bool(LastIsDown("b", log[j].c))>> >>

\* a tick after keyup a and then keydown a, in a run started before them,
\* printed true for a and false for b
C35_PressedAfterRelease ==
    /\ code = KeyProgram
    /\ \E j \in At("tick") :
          /\ log[j].d
          /\ Cardinality(EventsFor("a", log[j].c)) = 2
          /\ \E i \in EventsFor("a", log[j].c) : ~arg[i].down
          /\ LastIsDown("a", log[j].c)
    /\ TickPrints = << <<Bool(TRUE)>>, <<Bool(FALSE)>> >>

(***************************************************************************)
(* C33: invocation scopes do not persist: a name first assigned inside a   *)
(* function invocation and owned by no ancestor scope is defined in no     *)
(* scope once the invocation returns; in particular a variable created     *)
(* only inside run() during frame n is undefined at the start of run() in  *)
(* frame n+1, while variables owned by the global scope keep their values  *)
(* from frame to frame.                                                    *)
(***************************************************************************)
\* the scopes of the arena that bind name
BoundIn(scopes, name) == {s \in DOMAIN scopes : name \in DOMAIN scopes[s].vars}

\* the global g of context c before the step: what the frame before left,
\* or the 0 of the top-level pass for the frame startProgram calls
GlobalBefore(c) ==
    IF c \in DOMAIN ctxs THEN ctxs[c].scopes[1].vars[<<"g">>] ELSE Num(0)

\* C33: in every step of g = 0; function run(): t = g; g = 1 - g, run()
\* starts with t undefined and g as the frame before left it; when it
\* returns t is bound in the scope of the invocation alone, and that scope
\* is not among those the step leaves, none of which binds t
C33_InvocationScopeGone ==
    [][code = ScopeProgram =>
          /\ \A j \in AtNext("bound") :
                /\ Visible(log'[j].d.after, log'[j].d.scope, <<"t">>) = Undefined
                /\ Visible(log'[j].d.after, log'[j].d.scope, <<"g">>)
                       = GlobalBefore(log'[j].c)
          /\ \A j \in AtNext("return") :
                /\ BoundIn(log'[j].d.scopes, <<"t">>) = {log'[j].d.scope}
                /\ log'[j].d.scope \notin DOMAIN ctxs'[log'[j].c].scopes
                /\ log'[j].d.scopes[1].vars[<<"g">>]
                       = ctxs'[log'[j].c].scopes[1].vars[<<"g">>]
          /\ \A c \in DOMAIN ctxs' : BoundIn(ctxs'[c].scopes, <<"t">>) = {}]_vars

\* a frame of a callback: run() began with g = 1 from the frame before and
\* no t, though that frame had set t; it set t to 1 in its own scope and
\* left g = 0 and no t
C33_SecondFrame ==
    /\ code = ScopeProgram
    /\ At("callback") # {}
    /\ \E j \in At("bound") :
          /\ Visible(log[j].d.after, log[j].d.scope, <<"g">>) = Num(1)
          /\ Visible(log[j].d.after, log[j].d.scope, <<"t">>) = Undefined
    /\ \E j \in At("return") :
          log[j].d.scopes[log[j].d.scope].vars[<<"t">>] = Num(1)
    /\ \A c \in DOMAIN ctxs : BoundIn(ctxs[c].scopes, <<"t">>) = {}
    /\ \E c \in DOMAIN ctxs : ctxs[c].scopes[1].vars[<<"g">>] = Num(0)

(***************************************************************************)
(* C37: the color stack is reset only by startProgram: startProgram        *)
(* replaces it with exactly one default entry, discarding every colour     *)
(* pushed by top-level statements, and no tick resets it afterwards, so    *)
(* the stack at the start of tick n+1 equals the stack at the end of tick  *)
(* n (a run() that pushes a colour without popping it changes the colour   *)
(* of the drawing calls that precede the push in the next frame).          *)
(***************************************************************************)
\* the changes of the color stack of context c in the step, in order
ChangesNext(c) == {j \in AtNext("stack") : log'[j].c = c}

\* the stack of context c before the step: empty for the context the step
\* makes
StackBefore(c) == IF c \in DOMAIN ctxs THEN ctxs[c].colorStack ELSE <<>>

\* the colour on top of a stack, the default colour on the empty one
OnTop(stack) == IF stack = <<>> THEN DefaultColor ELSE stack[Len(stack)]

\* C37: in every step, the stack of a context is replaced by the one
\* default entry once, in startProgram of the step that makes the context,
\* before the first tick and whatever the top-level pass has pushed; its
\* other changes are color and popColor calls, each applied to what the
\* change before left and the first to what the step before left, so a step
\* without such a call leaves the stack as it was; and run()'s first
\* drawing call of a tick has the colour on top of the stack the tick
\* before left
C37_ResetOnlyByStartProgram ==
    [][\A c \in DOMAIN ctxs' :
          /\ \A j \in ChangesNext(c) :
                /\ log'[j].d.op \in {"init", "color", "popColor"}
                /\ log'[j].d.op = "init" =>
                       /\ c \notin DOMAIN ctxs
                       /\ log'[j].d.after = <<DefaultColor>>
                       /\ \A k \in AtNext("tick") : k > j
                /\ log'[j].d.before =
                       IF \E k \in ChangesNext(c) : k < j
                       THEN log'[Latest({k \in ChangesNext(c) : k < j})].d.after
                       ELSE StackBefore(c)
          /\ c \notin DOMAIN ctxs =>
                 Cardinality({j \in ChangesNext(c) : log'[j].d.op = "init"}) = 1
          /\ ctxs'[c].colorStack =
                 IF ChangesNext(c) = {} THEN StackBefore(c)
                 ELSE log'[Latest(ChangesNext(c))].d.after
          /\ \A j \in AtNext("draw") :
                 /\ log'[j].c = c
                 /\ c \in DOMAIN ctxs
                 /\ \A k \in ChangesNext(c) : k > j
                 => log'[j].d.color = OnTop(ctxs[c].colorStack)]_vars

\* a frame of color(255,0,0); function run(): circle(1,1,1);
\* color(0,0,255): the circle is blue, the colour the frame before pushed
\* after its own circle, and the red of the top-level pass is not on the
\* stack, whose bottom is the default entry of startProgram
C37_BlueFromFrameBefore ==
    /\ code = PaintProgram
    /\ At("callback") # {}
    /\ \E j \in At("draw") :
          /\ log[j].d.color = ColorString(Num(0), Num(0), Num(255))
          /\ \A k \in At("stack") : k > j
          /\ ctxs[log[j].c].colorStack =
                 <<DefaultColor, ColorString(Num(0), Num(0), Num(255)),
                   ColorString(Num(0), Num(0), Num(255))>>

====
